---- MODULE Spec2Model ----
(***************************************************************************)
(* A model of the distributed Game of Life coordinator (engine/broker.go), *)
(* its compute nodes (worker) and the run driver (gol/distributor.go).     *)
(* Every RPC handler of the broker runs in a goroutine of its own, so a    *)
(* handler is a slot with a program counter; one action is one statement   *)
(* (or one run of statements touching no shared field) of the handler.     *)
(***************************************************************************)
EXTENDS Integers, Sequences, FiniteSets, TLC

\* ------------------------------------------------------------------ bounds
Height == 4
Width == 4
MaxTurns == 2
MaxWorkers == 2
MaxSlots == 3
MaxCalls == 3
MaxRunCalls == 4
MaxDrivers == 2
\* The tall grid and the node count of SpecTall.
TallHeight == 13
TallWidth == 3
TallWorkers == 11
\* The sessions of a driver and the flip polls of a session in SpecDriver.
MaxSessions == 2
MaxPolls == 2
\* The heights, worker counts and width of SpecParts.
PartHeight == 13
PartThreads == 13
PartWidth == 3
PartParam == 3
\* The grids of SpecNode.
CalcWidth == 3
CalcHeight == 3
\* The grids of SpecFlip.
FlipHeight == 2
FlipWidth == 2
SaveHeight == 2
SaveWidth == 2
\* The turns requested of the single-process variant.
LocalTurns == 2
LocalHeight == 2
LocalWidth == 2
\* The grids of SpecChunk: up to ChunkHeight rows that repeat TileRows rows.
ChunkHeight == 10
ChunkWidth == 2
TileRows == 3

\* The byte value of an alive cell.
Alive == 255
\* The rows per goroutine of a node.
chunkSize == 4

\* ------------------------------------------------------------------- grids
\* A grid is a sequence of rows, a row a sequence of bytes; row i and column
\* j of the code are elements i+1 and j+1 here.  The nil slice is << >>.
NilWorld == << >>

GridOf(cells, width, height) ==
  [i \in 1..height |-> [j \in 1..width |->
      IF <<j - 1, i - 1>> \in cells THEN Alive ELSE 0]]

\* Seed grids a driver may submit: a blinker (period 2) and a corner
\* tromino (becomes a block, a still life).
BlinkerCells == {<<0, 1>>, <<1, 1>>, <<2, 1>>}
CornerCells == {<<0, 0>>, <<1, 0>>, <<0, 1>>}
Seeds == {GridOf(BlinkerCells, Width, Height), GridOf(CornerCells, Width, Height)}
\* A blinker on the tall grid.
TallGrid == GridOf(BlinkerCells, TallWidth, TallHeight)

\* world[i][j] with the code's 0-based indices.
At(world, i, j) == world[i + 1][j + 1]

\* A mutant of calculateNextState: the neighbour above and to the left is
\* not counted.
calculateNextStateSeven(world, width, height, startRow, endRow) ==
  [r \in 1..(endRow - startRow) |-> [c \in 1..width |->
     LET i == startRow + r - 1
         j == c - 1
         sum == (At(world, (i + height - 1) % height, (j + width) % width)
               + At(world, (i + height - 1) % height, (j + width + 1) % width)
               + At(world, (i + height) % height, (j + width - 1) % width)
               + At(world, (i + height) % height, (j + width + 1) % width)
               + At(world, (i + height + 1) % height, (j + width - 1) % width)
               + At(world, (i + height + 1) % height, (j + width) % width)
               + At(world, (i + height + 1) % height, (j + width + 1) % width))
               \div 255
     IN IF At(world, i, j) = 255
          THEN (IF sum < 2 \/ sum > 3 THEN 0 ELSE 255)
          ELSE (IF sum = 3 THEN 255 ELSE 0)]]

\* worker/gol_worker.go, calculateNextState: rows startRow..endRow-1 of the
\* next generation, the 8 neighbours taken modulo height and width.
calculateNextState(world, width, height, startRow, endRow) ==
  [r \in 1..(endRow - startRow) |-> [c \in 1..width |->
     LET i == startRow + r - 1
         j == c - 1
         sum == (At(world, (i + height - 1) % height, (j + width - 1) % width)
               + At(world, (i + height - 1) % height, (j + width) % width)
               + At(world, (i + height - 1) % height, (j + width + 1) % width)
               + At(world, (i + height) % height, (j + width - 1) % width)
               + At(world, (i + height) % height, (j + width + 1) % width)
               + At(world, (i + height + 1) % height, (j + width - 1) % width)
               + At(world, (i + height + 1) % height, (j + width) % width)
               + At(world, (i + height + 1) % height, (j + width + 1) % width))
               \div 255
     IN IF At(world, i, j) = 255
          THEN (IF sum < 2 \/ sum > 3 THEN 0 ELSE 255)
          ELSE (IF sum = 3 THEN 255 ELSE 0)]]

\* --------------------------------------------------------------- float32
\* The broker computes the row ranges in float32.  A positive float32 is
\* modelled as <<m, s>>, the value m / 2^s, with m of at most 24 bits.
Mantissa == 24

\* p / q rounded to the nearest integer, ties to even.
RoundHalfEven(p, q) ==
  LET f == p \div q
      r == p % q
  IN IF 2 * r > q \/ (2 * r = q /\ f % 2 = 1) THEN f + 1 ELSE f

\* The least s >= from with p * 2^s >= q * 2^(Mantissa-1).
RECURSIVE ScaleUp(_, _, _)
ScaleUp(p, q, s) ==
  IF p * (2 ^ s) >= q * (2 ^ (Mantissa - 1)) THEN s ELSE ScaleUp(p, q, s + 1)

\* The least k >= from with p < 2^(Mantissa+k).
RECURSIVE ScaleDown(_, _)
ScaleDown(p, k) ==
  IF p < 2 ^ (Mantissa + k) THEN k ELSE ScaleDown(p, k + 1)

\* float32(p) / float32(q) for small positive integers p, q.
F32Div(p, q) ==
  LET s == ScaleUp(p, q, 0)
  IN <<RoundHalfEven(p * (2 ^ s), q), s>>

\* int(float32(id) * f): the float32 product, truncated.
F32MulTrunc(id, f) ==
  LET prod == id * f[1]
      k == ScaleDown(prod, 0)
      m == RoundHalfEven(prod, 2 ^ k)
  IN (m * (2 ^ k)) \div (2 ^ f[2])

\* engine/broker.go, worker: the rows [startRow, endRow) of worker id.
StartRow(id, height, threads) ==
  F32MulTrunc(id, F32Div(height, threads))

EndRow(id, height, threads) ==
  LET e == F32MulTrunc(id + 1, F32Div(height, threads))
  IN IF e > height THEN height ELSE e

\* --------------------------------------------------------------- state
VARIABLES
  World,      \* Broker.World: the current grid
  LastWorld,  \* Broker.LastWorld: the grid of the last flip poll
  Turn,       \* Broker.Turn
  Mu,         \* Broker.Mu: TRUE while the mutex is locked
  Quit,       \* Broker.Quit
  TurnDone,   \* Broker.TurnDone
  Continue,   \* Broker.Continue: a checkpoint was taken
  Workers,    \* len(Broker.Workers): the nodes found at startup
  node,       \* node[i]: the process of worker i, "up", "hung" or "exited"
  proc,       \* the broker process: "up", "exited" (kill) or "crashed"
  slot,       \* slot[s]: the goroutine serving one RPC of the broker
  ncalls,     \* the number of requests the broker has been sent
  hist,       \* history: what the claims about calls over time refer to
  drv,        \* the driver process (gol/distributor.go) and its observer
  job         \* a unit of work looked at on its own: a request to a node
              \* and its reply, or the partition of a grid among workers

\* The broker's fields and the processes.
bstate == <<World, LastWorld, Turn, Mu, Quit, TurnDone, Continue, Workers, node, proc>>
\* What a step of a handler that writes no field leaves unchanged.
bvars == <<bstate, ncalls, hist, drv, job>>

Slots == 1..MaxSlots
Ops == {"EvolveWorld", "CalculateAliveCells", "AliveCellsCount", "GetGlobal",
        "QuitServer", "Pause", "Unpause", "KillServer", "GetTurnDone",
        "GetContinue", "GetCellFlipped"}

\* hist.pauseHeld: a Pause has returned and no Unpause was sent since.
\* hist.mid: that Pause returned while a run was in flight with turns left.
\* hist.resumed: the Unpause of that Pause was sent, and no Pause since.
\* hist.frozen: a QuitServer has returned and no EvolveWorld was sent since.
\* hist.q: the QuitServer that was sent while the last EvolveWorld sent was
\* in flight has returned (done), at Turn turn, and the EvolveWorld handler
\* had then not executed its first statement (early).
\* hist.run: the slot of the last EvolveWorld request sent, 0 before it.
\* hist.turned: the turns counted since the last GetTurnDone answered (or
\* since the start); hist.polled: the turns that answer accounted for.
\* hist.late: in the fan-out last collected or being collected, a node
\* replied while a node of a lower index had not.
\* hist.resumes: the EvolveWorld handlers that found Continue set.
NoQ == [done |-> FALSE, turn |-> 0, early |-> FALSE]
NoHist == [pauseHeld |-> FALSE, mid |-> FALSE, resumed |-> FALSE,
           frozen |-> FALSE, q |-> NoQ, run |-> 0, turned |-> 0, polled |-> 0,
           late |-> FALSE, resumes |-> 0]

NoRes == [op |-> "none"]
\* One remote call of a fan-out: "idle", "sent" (carrying world), "ok"
\* (rows holds the reply) or "fail" (the call returned an error).
IdleCall == [st |-> "idle", world |-> NilWorld, rows |-> << >>]
\* A slot: the request (op, grid, turns), the handler's position (pc, idx,
\* calls) and its reply (res); and, of an EvolveWorld, what it found when it
\* started (resumed: Continue was set; w0, t0: the World and Turn then),
\* whether it has fanned out, and whether it is clean: no QuitServer or
\* KillServer was being served or was sent while it ran.  Of a QuitServer,
\* after: it was sent while an EvolveWorld was in flight.  Of an Unpause,
\* stray: it was sent while no Pause was outstanding.
FreeSlot == [op |-> "none", pc |-> "free", grid |-> NilWorld, turns |-> 0,
             idx |-> 0, calls |-> << >>, res |-> NoRes,
             resumed |-> FALSE, w0 |-> NilWorld, t0 |-> 0, fanned |-> FALSE,
             clean |-> FALSE, after |-> FALSE, stray |-> FALSE]

\* The first statement of each handler.
FirstPc(op) ==
  CASE op = "EvolveWorld" -> "quit0"
    [] op = "Unpause" -> "unlock"
    [] op = "KillServer" -> "kill"
    [] OTHER -> "lock"

NewCall(op, grid, turns) ==
  [FreeSlot EXCEPT !.op = op, !.pc = FirstPc(op), !.grid = grid, !.turns = turns]

Running(s, op, pc) == proc = "up" /\ slot[s].op = op /\ slot[s].pc = pc

\* An EvolveWorld request that was sent and has not returned.
InFlight(s) == slot[s].op = "EvolveWorld" /\ slot[s].pc # "free"

\* p.ImageHeight and p.ImageWidth of a request: the driver's parameters
\* name the dimensions of the grid it read, also when it then submits the
\* grid GetContinue answered.
ImageHeight(grid) == IF Len(grid) = 0 THEN Height ELSE Len(grid)
ImageWidth(grid) == IF Len(grid) = 0 THEN Width ELSE Len(grid[1])

Goto(s, pc) == slot' = [slot EXCEPT ![s].pc = pc]

\* b.Mu.Unlock(): unlocking an unlocked sync.Mutex is a fatal error that
\* ends the process.
Unlock(s, pc) ==
  IF Mu
    THEN /\ Mu' = FALSE
         /\ proc' = proc
         /\ Goto(s, pc)
    ELSE /\ proc' = "crashed"
         /\ UNCHANGED <<Mu, slot>>

\* ------------------------------------------------------- Broker.EvolveWorld
\* b.Quit = false
\* A mutant of EvolveResetQuit: a new run clears Continue with Quit.
EvolveResetQuitContinue(s) ==
  /\ Running(s, "EvolveWorld", "quit0")
  /\ Quit' = FALSE
  /\ Continue' = FALSE
  /\ Goto(s, "init")
  /\ UNCHANGED <<World, LastWorld, Turn, Mu, TurnDone, Workers, node, proc, ncalls, hist, drv, job>>

EvolveResetQuit(s) ==
  /\ Running(s, "EvolveWorld", "quit0")
  /\ Quit' = FALSE
  /\ Goto(s, "init")
  /\ UNCHANGED <<World, LastWorld, Turn, Mu, TurnDone, Continue, Workers, node, proc, ncalls, hist, drv, job>>

\* A mutant of EvolveAdopt: the supplied grid is adopted although the
\* session is resumable.
EvolveAdoptAlways(s) ==
  /\ Running(s, "EvolveWorld", "init")
  /\ World' = slot[s].grid
  /\ slot' = [slot EXCEPT ![s].pc = "turn0", ![s].resumed = Continue,
                          ![s].w0 = World, ![s].t0 = Turn]
  /\ UNCHANGED <<LastWorld, Turn, Mu, Quit, TurnDone, Continue, Workers, node, proc, ncalls, hist, drv, job>>

\* if !b.Continue { b.World = copy of req.World ...
EvolveAdopt(s) ==
  /\ Running(s, "EvolveWorld", "init")
  /\ IF ~Continue
       THEN /\ World' = slot[s].grid
            /\ Goto(s, "turn0")
       ELSE /\ World' = World
            /\ slot' = [slot EXCEPT ![s].pc = "last", ![s].resumed = TRUE,
                                    ![s].w0 = World, ![s].t0 = Turn]
  /\ hist' = [hist EXCEPT !.resumes = IF Continue THEN @ + 1 ELSE @]
  /\ UNCHANGED <<LastWorld, Turn, Mu, Quit, TurnDone, Continue, Workers, node, proc, ncalls, drv, job>>

\* ... b.Turn = 0 }
EvolveResetTurn(s) ==
  /\ Running(s, "EvolveWorld", "turn0")
  /\ Turn' = 0
  /\ Goto(s, "last")
  /\ UNCHANGED <<World, LastWorld, Mu, Quit, TurnDone, Continue, Workers, node, proc, ncalls, hist, drv, job>>

\* b.LastWorld = b.World
EvolveSetLast(s) ==
  /\ Running(s, "EvolveWorld", "last")
  /\ LastWorld' = World
  /\ Goto(s, "loop")
  /\ UNCHANGED <<World, Turn, Mu, Quit, TurnDone, Continue, Workers, node, proc, ncalls, hist, drv, job>>

\* for b.Turn < p.Turns && !b.Quit
EvolveLoop(s) ==
  /\ Running(s, "EvolveWorld", "loop")
  /\ IF Turn < slot[s].turns /\ ~Quit THEN Goto(s, "lock") ELSE Goto(s, "ret")
  /\ UNCHANGED bvars

\* A mutant of EvolveLock: the loop goes on without waiting for the mutex.
EvolveLockBarges(s) ==
  /\ Running(s, "EvolveWorld", "lock")
  /\ Mu' = TRUE
  /\ slot' = [slot EXCEPT ![s].pc = "send", ![s].idx = 0, ![s].fanned = TRUE,
                          ![s].calls = [i \in 1..Workers |-> IdleCall]]
  /\ UNCHANGED <<World, LastWorld, Turn, Quit, TurnDone, Continue, Workers, node, proc, ncalls, hist, drv, job>>

\* b.Mu.Lock(); threads := len(b.Workers); results := make(...)
EvolveLock(s) ==
  /\ Running(s, "EvolveWorld", "lock")
  /\ ~Mu
  /\ Mu' = TRUE
  /\ slot' = [slot EXCEPT ![s].pc = "send", ![s].idx = 0, ![s].fanned = TRUE,
                          ![s].calls = [i \in 1..Workers |-> IdleCall]]
  /\ UNCHANGED <<World, LastWorld, Turn, Quit, TurnDone, Continue, Workers, node, proc, ncalls, hist, drv, job>>

\* go worker(id, b.World, results[id], p, workerClient, threads), one id at
\* a time; after the last one the handler waits on results[0].
EvolveSend(s) ==
  /\ Running(s, "EvolveWorld", "send")
  /\ IF slot[s].idx < Workers
       THEN slot' = [slot EXCEPT ![s].idx = @ + 1,
                       ![s].calls[slot[s].idx + 1] =
                          [st |-> "sent", world |-> World, rows |-> << >>]]
       ELSE Goto(s, "recv")
  /\ UNCHANGED bvars

\* calculateNextState panics (index out of range) when a row it reads, a
\* row of its range or a neighbour modulo height, is not in world.
Panics(world, height, startRow, endRow) ==
  \E i \in startRow..(endRow - 1) :
    \E d \in {height - 1, height, height + 1} : (i + d) % height >= Len(world)

\* worker/gol_worker.go, CalculateWorld, called by worker id-1 of slot s
\* with the ImageHeight and ImageWidth of the request (the driver sends the
\* dimensions of its grid): the node replies with its rows; a panic ends
\* the node process.
WorkerReply(s, id) ==
  /\ proc = "up"
  /\ slot[s].op = "EvolveWorld"
  /\ id \in 1..Len(slot[s].calls)
  /\ slot[s].calls[id].st = "sent"
  /\ node[id] = "up"
  /\ LET c == slot[s].calls[id]
         n == Len(slot[s].calls)
         height == ImageHeight(slot[s].grid)
         width == ImageWidth(slot[s].grid)
     IN \* the request's StartRow and EndRow, each computed once
        \E startRow \in {StartRow(id - 1, height, n)},
           endRow \in {EndRow(id - 1, height, n)} :
          IF Panics(c.world, height, startRow, endRow)
            THEN /\ node' = [node EXCEPT ![id] = "exited"]
                 /\ slot' = slot
            ELSE /\ node' = node
                 /\ slot' = [slot EXCEPT ![s].calls[id] =
                      [st |-> "ok", world |-> NilWorld,
                       rows |-> calculateNextState(c.world, width, height, startRow, endRow)]]
  /\ hist' = [hist EXCEPT !.late = @ \/ (slot'[s].calls[id].st = "ok" /\
                 \E j \in 1..(id - 1) : slot[s].calls[j].st \in {"idle", "sent"})]
  /\ UNCHANGED <<World, LastWorld, Turn, Mu, Quit, TurnDone, Continue, Workers, proc, ncalls, drv, job>>

\* A mutant of WorkerFail: the goroutine of a failed call sends an empty
\* slice on its results channel.
WorkerFailSends(s, id) ==
  /\ proc = "up"
  /\ slot[s].op = "EvolveWorld"
  /\ id \in 1..Len(slot[s].calls)
  /\ slot[s].calls[id].st = "sent"
  /\ node[id] = "exited"
  /\ slot' = [slot EXCEPT ![s].calls[id] = [st |-> "ok", world |-> NilWorld, rows |-> << >>]]
  /\ UNCHANGED bvars

\* worker: client.Call returns an error (the node is gone); the goroutine
\* prints it and returns without sending on its results channel.
WorkerFail(s, id) ==
  /\ proc = "up"
  /\ slot[s].op = "EvolveWorld"
  /\ id \in 1..Len(slot[s].calls)
  /\ slot[s].calls[id].st = "sent"
  /\ node[id] = "exited"
  /\ slot' = [slot EXCEPT ![s].calls[id] = [st |-> "fail", world |-> NilWorld, rows |-> << >>]]
  /\ UNCHANGED bvars

\* A mutant of Concat: the slices are appended in the reverse order.
RECURSIVE ConcatReversed(_, _)
ConcatReversed(calls, i) ==
  IF i > Len(calls) THEN << >> ELSE ConcatReversed(calls, i + 1) \o calls[i].rows

\* newWorld = append(newWorld, slice...) for i = 0..threads-1.
RECURSIVE Concat(_, _)
Concat(calls, i) ==
  IF i > Len(calls) THEN << >> ELSE calls[i].rows \o Concat(calls, i + 1)

\* A mutant of EvolveCollect: the slices are appended in the order the
\* nodes replied in (of two nodes, reversed when the second replied first).
EvolveCollectArrival(s) ==
  /\ Running(s, "EvolveWorld", "recv")
  /\ \A i \in 1..Len(slot[s].calls) : slot[s].calls[i].st = "ok"
  /\ World' = IF hist.late THEN ConcatReversed(slot[s].calls, 1) ELSE Concat(slot[s].calls, 1)
  /\ slot' = [slot EXCEPT ![s].pc = "incTurn", ![s].calls = << >>, ![s].idx = 0]
  /\ UNCHANGED <<LastWorld, Turn, Mu, Quit, TurnDone, Continue, Workers, node, proc, ncalls, hist, drv, job>>

\* slice := <-results[i] for every i, then b.World = newWorld.
EvolveCollect(s) ==
  /\ Running(s, "EvolveWorld", "recv")
  /\ \A i \in 1..Len(slot[s].calls) : slot[s].calls[i].st = "ok"
  /\ World' = Concat(slot[s].calls, 1)
  /\ slot' = [slot EXCEPT ![s].pc = "incTurn", ![s].calls = << >>, ![s].idx = 0]
  /\ UNCHANGED <<LastWorld, Turn, Mu, Quit, TurnDone, Continue, Workers, node, proc, ncalls, hist, drv, job>>

\* A mutant of EvolveIncTurn: a fan-in counts for two turns.
EvolveIncTurnTwice(s) ==
  /\ Running(s, "EvolveWorld", "incTurn")
  /\ Turn' = Turn + 2
  /\ Goto(s, "turnDone")
  /\ hist' = [hist EXCEPT !.turned = @ + 1, !.late = FALSE]
  /\ UNCHANGED <<World, LastWorld, Mu, Quit, TurnDone, Continue, Workers, node, proc, ncalls, drv, job>>

\* b.Turn++
EvolveIncTurn(s) ==
  /\ Running(s, "EvolveWorld", "incTurn")
  /\ Turn' = Turn + 1
  /\ Goto(s, "turnDone")
  /\ hist' = [hist EXCEPT !.turned = @ + 1, !.late = FALSE]
  /\ UNCHANGED <<World, LastWorld, Mu, Quit, TurnDone, Continue, Workers, node, proc, ncalls, drv, job>>

\* b.TurnDone = true
EvolveTurnDone(s) ==
  /\ Running(s, "EvolveWorld", "turnDone")
  /\ TurnDone' = TRUE
  /\ Goto(s, "unlock")
  /\ UNCHANGED <<World, LastWorld, Turn, Mu, Quit, Continue, Workers, node, proc, ncalls, hist, drv, job>>

\* b.Mu.Unlock()
EvolveUnlock(s) ==
  /\ Running(s, "EvolveWorld", "unlock")
  /\ Unlock(s, "loop")
  /\ UNCHANGED <<World, LastWorld, Turn, Quit, TurnDone, Continue, Workers, node, ncalls, hist, drv, job>>

\* res.World = b.World; res.Turn = b.Turn; return
EvolveReturn(s) ==
  /\ Running(s, "EvolveWorld", "ret")
  /\ slot' = [slot EXCEPT ![s].pc = "free",
                ![s].res = [op |-> "EvolveWorld", World |-> World, Turn |-> Turn]]
  /\ UNCHANGED bvars

\* ------------------------------------------------------- query handlers
\* A mutant of HandlerLock: the handler goes on without the mutex.
HandlerLockBarges(s) ==
  /\ proc = "up"
  /\ slot[s].op \in Ops \ {"EvolveWorld", "Unpause", "KillServer"}
  /\ slot[s].pc = "lock"
  /\ Mu' = TRUE
  /\ Goto(s, IF slot[s].op = "Pause" THEN "free" ELSE "body")
  /\ hist' = IF slot[s].op = "Pause"
               THEN [hist EXCEPT !.pauseHeld = TRUE,
                       !.mid = \E t \in Slots :
                                 /\ InFlight(t) /\ slot[t].pc # "ret"
                                 /\ slot[t].pc \in {"loop", "lock"} => Turn < slot[t].turns]
               ELSE hist
  /\ UNCHANGED <<World, LastWorld, Turn, Quit, TurnDone, Continue, Workers, node, proc, ncalls, drv, job>>

\* b.Mu.Lock() at the head of a handler; Pause returns holding the mutex.
HandlerLock(s) ==
  /\ proc = "up"
  /\ slot[s].op \in Ops \ {"EvolveWorld", "Unpause", "KillServer"}
  /\ slot[s].pc = "lock"
  /\ ~Mu
  /\ Mu' = TRUE
  /\ Goto(s, IF slot[s].op = "Pause" THEN "free" ELSE "body")
  /\ hist' = IF slot[s].op = "Pause"
               THEN [hist EXCEPT !.pauseHeld = TRUE,
                       !.mid = \E t \in Slots :
                                 /\ InFlight(t) /\ slot[t].pc # "ret"
                                 /\ slot[t].pc \in {"loop", "lock"} => Turn < slot[t].turns]
               ELSE hist
  /\ UNCHANGED <<World, LastWorld, Turn, Quit, TurnDone, Continue, Workers, node, proc, ncalls, drv, job>>

\* A mutant of HandlerUnlock: the handler returns and the mutex stays
\* locked.
HandlerUnlockKeeps(s) ==
  /\ proc = "up"
  /\ slot[s].op \in Ops \ {"EvolveWorld", "Pause", "KillServer"}
  /\ slot[s].pc = "unlock"
  /\ Goto(s, "free")
  /\ UNCHANGED <<World, LastWorld, Turn, Mu, Quit, TurnDone, Continue, Workers, node, proc, ncalls, hist, drv, job>>

\* defer b.Mu.Unlock() of a handler, and Unpause's b.Mu.Unlock().
HandlerUnlock(s) ==
  /\ proc = "up"
  /\ slot[s].op \in Ops \ {"EvolveWorld", "Pause", "KillServer"}
  /\ slot[s].pc = "unlock"
  /\ Unlock(s, "free")
  /\ hist' = IF slot[s].op = "QuitServer" /\ Mu
               THEN [hist EXCEPT !.frozen = TRUE,
                       !.q = IF slot[s].after
                               THEN [done |-> TRUE, turn |-> Turn,
                                     early |-> \E t \in Slots :
                                        slot[t].op = "EvolveWorld" /\ slot[t].pc = "quit0"]
                               ELSE @]
               ELSE hist
  /\ UNCHANGED <<World, LastWorld, Turn, Quit, TurnDone, Continue, Workers, node, ncalls, drv, job>>

Respond(s, res) == slot' = [slot EXCEPT ![s].pc = "unlock", ![s].res = res]

\* The cells marked TRUE in mask, row by row; a cell is util.Cell{X: j, Y: i},
\* written <<j, i>>.
RECURSIVE ScanCells(_, _)
ScanCells(mask, k) ==
  IF Len(mask) = 0 \/ k >= Len(mask) * Len(mask[1]) THEN << >>
  ELSE LET i == k \div Len(mask[1])
           j == k % Len(mask[1])
       IN (IF At(mask, i, j) THEN << <<j, i>> >> ELSE << >>)
            \o ScanCells(mask, k + 1)

\* The cells with b.World[i][j] == 255, in the order of the two loops.
AliveCells(world) ==
  ScanCells([i \in 1..Len(world) |-> [j \in 1..Len(world[i]) |-> world[i][j] = 255]], 0)

\* Broker.CalculateAliveCells
CalculateAliveCells(s) ==
  /\ Running(s, "CalculateAliveCells", "body")
  /\ Respond(s, [op |-> "CalculateAliveCells", AliveCells |-> AliveCells(World)])
  /\ UNCHANGED bvars

\* Broker.AliveCellsCount
AliveCellsCount(s) ==
  /\ Running(s, "AliveCellsCount", "body")
  /\ Respond(s, [op |-> "AliveCellsCount", AliveCellsCount |-> Len(AliveCells(World)),
                 CompletedTurns |-> Turn])
  /\ UNCHANGED bvars

\* Broker.GetGlobal
GetGlobal(s) ==
  /\ Running(s, "GetGlobal", "body")
  /\ Respond(s, [op |-> "GetGlobal", World |-> World, Turns |-> Turn])
  /\ UNCHANGED bvars

\* A mutant of GetContinue: answering Continue clears it.
GetContinueClears(s) ==
  /\ Running(s, "GetContinue", "body")
  /\ Respond(s, [op |-> "GetContinue", World |-> World, Turn |-> Turn,
                 Continue |-> Continue])
  /\ Continue' = FALSE
  /\ UNCHANGED <<World, LastWorld, Turn, Mu, Quit, TurnDone, Workers, node, proc, ncalls, hist, drv, job>>

\* Broker.GetContinue
GetContinue(s) ==
  /\ Running(s, "GetContinue", "body")
  /\ Respond(s, [op |-> "GetContinue", World |-> World, Turn |-> Turn,
                 Continue |-> Continue])
  /\ UNCHANGED bvars

\* A mutant of GetTurnDone: the flag is answered and not cleared.
GetTurnDoneKeeps(s) ==
  /\ Running(s, "GetTurnDone", "body")
  /\ Respond(s, [op |-> "GetTurnDone", TurnDone |-> TurnDone, Turn |-> Turn])
  /\ TurnDone' = TurnDone
  /\ hist' = [hist EXCEPT !.turned = 0, !.polled = hist.turned]
  /\ UNCHANGED <<World, LastWorld, Turn, Mu, Quit, Continue, Workers, node, proc, ncalls, drv, job>>

\* Broker.GetTurnDone
GetTurnDone(s) ==
  /\ Running(s, "GetTurnDone", "body")
  /\ Respond(s, [op |-> "GetTurnDone", TurnDone |-> TurnDone, Turn |-> Turn])
  /\ TurnDone' = FALSE
  /\ hist' = [hist EXCEPT !.turned = 0, !.polled = hist.turned]
  /\ UNCHANGED <<World, LastWorld, Turn, Mu, Quit, Continue, Workers, node, proc, ncalls, drv, job>>

\* a ^ b on bytes.
RECURSIVE XorByte(_, _, _)
XorByte(a, b, bits) ==
  IF bits = 0 THEN 0
  ELSE ((a + b) % 2) + 2 * XorByte(a \div 2, b \div 2, bits - 1)

\* engine/broker.go, xor2D
xor2D(a, b) ==
  [i \in 1..Len(a) |-> [j \in 1..Len(a[1]) |-> XorByte(a[i][j], b[i][j], 8)]]

\* A mutant of findFlippedCells: the alive cells of next, whatever current
\* holds.
findAliveCells(next, current) ==
  IF Len(current) = 0 \/ Len(next) = 0 THEN << >>
  ELSE IF Len(current[1]) = 0 \/ Len(next[1]) = 0 THEN << >>
  ELSE ScanCells([i \in 1..Len(next) |->
                    [j \in 1..Len(next[1]) |-> next[i][j] # 0]], 0)

\* engine/broker.go, findFlippedCells
findFlippedCells(next, current) ==
  IF Len(current) = 0 \/ Len(next) = 0 THEN << >>
  ELSE IF Len(current[1]) = 0 \/ Len(next[1]) = 0 THEN << >>
  ELSE LET xorWorld == xor2D(current, next)
       IN ScanCells([i \in 1..Len(xorWorld) |->
                       [j \in 1..Len(xorWorld[1]) |-> xorWorld[i][j] # 0]], 0)

\* The FlippedEvent list of GetCellFlipped: each cell with b.Turn.
FlippedEvents(cells, turn) ==
  [k \in 1..Len(cells) |-> [CompletedTurns |-> turn, Cell |-> cells[k]]]

\* Broker.GetCellFlipped
GetCellFlipped(s) ==
  /\ Running(s, "GetCellFlipped", "body")
  /\ Respond(s, [op |-> "GetCellFlipped",
                 FlippedEvents |-> FlippedEvents(findFlippedCells(World, LastWorld), Turn)])
  /\ LastWorld' = World
  /\ UNCHANGED <<World, Turn, Mu, Quit, TurnDone, Continue, Workers, node, proc, ncalls, hist, drv, job>>

\* Broker.QuitServer: b.Continue = true
QuitSetContinue(s) ==
  /\ Running(s, "QuitServer", "body")
  /\ Continue' = TRUE
  /\ Goto(s, "quit")
  /\ UNCHANGED <<World, LastWorld, Turn, Mu, Quit, TurnDone, Workers, node, proc, ncalls, hist, drv, job>>

\* Broker.QuitServer: b.Quit = true
QuitSetQuit(s) ==
  /\ Running(s, "QuitServer", "quit")
  /\ Quit' = TRUE
  /\ Goto(s, "last")
  /\ UNCHANGED <<World, LastWorld, Turn, Mu, TurnDone, Continue, Workers, node, proc, ncalls, hist, drv, job>>

\* Broker.QuitServer: b.LastWorld = b.World
QuitSetLast(s) ==
  /\ Running(s, "QuitServer", "last")
  /\ LastWorld' = World
  /\ Goto(s, "unlock")
  /\ UNCHANGED <<World, Turn, Mu, Quit, TurnDone, Continue, Workers, node, proc, ncalls, hist, drv, job>>

\* ---------------------------------------------------- Broker.KillServer
\* client.Call(stubs.KillHandler, ...); client.Close() for the next worker:
\* a node that is up exits (WorldOps.KillWorker signals its kill channel),
\* the call to a node that is gone fails and the loop goes on; the call to
\* a node that never answers does not return.  calls records which calls
\* failed.  After the last worker the handler goes on to b.Quit = true.
KillCall(s) ==
  [st |-> IF node[slot[s].idx + 1] = "up" THEN "ok" ELSE "fail",
   world |-> NilWorld, rows |-> << >>]

\* A mutant of KillWorkers: a failed call ends the broadcast.
KillWorkersAbort(s) ==
  /\ Running(s, "KillServer", "kill")
  /\ IF slot[s].idx < Workers
       THEN /\ node[slot[s].idx + 1] # "hung"
            /\ node' = [node EXCEPT ![slot[s].idx + 1] = "exited"]
            /\ slot' = [slot EXCEPT ![s].idx = IF KillCall(s).st = "fail" THEN Workers ELSE @ + 1,
                                    ![s].calls = Append(@, KillCall(s))]
       ELSE /\ node' = node
            /\ Goto(s, "quit")
  /\ UNCHANGED <<World, LastWorld, Turn, Mu, Quit, TurnDone, Continue, Workers, proc, ncalls, hist, drv, job>>

KillWorkers(s) ==
  /\ Running(s, "KillServer", "kill")
  /\ IF slot[s].idx < Workers
       THEN /\ node[slot[s].idx + 1] # "hung"
            /\ node' = [node EXCEPT ![slot[s].idx + 1] = "exited"]
            /\ slot' = [slot EXCEPT ![s].idx = @ + 1,
                                    ![s].calls = Append(@, KillCall(s))]
       ELSE /\ node' = node
            /\ Goto(s, "quit")
  /\ UNCHANGED <<World, LastWorld, Turn, Mu, Quit, TurnDone, Continue, Workers, proc, ncalls, hist, drv, job>>

\* b.Quit = true
KillSetQuit(s) ==
  /\ Running(s, "KillServer", "quit")
  /\ Quit' = TRUE
  /\ Goto(s, "signal")
  /\ UNCHANGED <<World, LastWorld, Turn, Mu, TurnDone, Continue, Workers, node, proc, ncalls, hist, drv, job>>

\* kill <- true, received by main's goroutine, which calls os.Exit(1).
KillSignal(s) ==
  /\ Running(s, "KillServer", "signal")
  /\ proc' = "exited"
  /\ UNCHANGED <<World, LastWorld, Turn, Mu, Quit, TurnDone, Continue, Workers, node, slot, ncalls, hist, drv, job>>

\* ------------------------------------------------------------- clients
\* The calls that stop a run: Checkpoint and Terminate.
Stoppers == {"QuitServer", "KillServer"}

\* A client sends a request: net/rpc starts a goroutine for it.  A slot is
\* free once its handler has returned; it keeps the reply until it is reused.
Send(s, op, grid, turns) ==
  /\ proc = "up"
  /\ slot[s].pc = "free"
  /\ slot' = [t \in Slots |->
               IF t = s
                 THEN [NewCall(op, grid, turns) EXCEPT
                         !.clean = \A u \in Slots : ~(slot[u].op \in Stoppers /\ slot[u].pc # "free"),
                         !.after = op = "QuitServer" /\ \E u \in Slots : InFlight(u),
                         !.stray = op = "Unpause" /\ ~hist.pauseHeld]
                 ELSE IF op \in Stoppers THEN [slot[t] EXCEPT !.clean = FALSE]
                 ELSE slot[t]]
  /\ hist' = [hist EXCEPT
               !.pauseHeld = IF op = "Unpause" THEN FALSE ELSE @,
               !.mid = IF op = "Unpause" THEN FALSE ELSE @,
               !.resumed = CASE op = "Unpause" -> hist.pauseHeld /\ hist.mid
                             [] op \in {"Pause", "EvolveWorld"} -> FALSE
                             [] OTHER -> @,
               !.frozen = IF op = "EvolveWorld" THEN FALSE ELSE @,
               !.q = IF op = "EvolveWorld" THEN NoQ ELSE @,
               !.run = IF op = "EvolveWorld" THEN s ELSE @]
  /\ UNCHANGED bstate

\* A request of any client, while the budget of requests lasts; the free
\* slots are interchangeable, the least one is taken.
Call(s, op, grid, turns) ==
  /\ ncalls < MaxCalls
  /\ \A t \in 1..(s - 1) : slot[t].pc # "free"
  /\ Send(s, op, grid, turns)
  /\ ncalls' = ncalls + 1
  /\ UNCHANGED <<drv, job>>

\* The run request of a driver, which waits for the answer of its run: no
\* other EvolveWorld is being served.
CallEvolve(s, grid, turns) ==
  /\ \A t \in Slots : ~InFlight(t)
  /\ Call(s, "EvolveWorld", grid, turns)

\* A node process dies: every call to it fails from now on.
NodeCrash(i) ==
  /\ node[i] = "up"
  /\ node' = [node EXCEPT ![i] = "exited"]
  /\ UNCHANGED <<World, LastWorld, Turn, Mu, Quit, TurnDone, Continue, Workers, proc, slot, ncalls, hist, drv, job>>

\* A node stops answering (its connection stays open): no call to it
\* returns from now on.
NodeHang(i) ==
  /\ node[i] = "up"
  /\ node' = [node EXCEPT ![i] = "hung"]
  /\ UNCHANGED <<World, LastWorld, Turn, Mu, Quit, TurnDone, Continue, Workers, proc, slot, ncalls, hist, drv, job>>

\* No unit of work is looked at on its own.
NoJob == [kind |-> "none"]

\* The driver: no session is running.  phase is the position of the
\* distributor's main goroutine and ctl that of its control goroutine; world
\* and turns are its grid and p.Turns; obs is the set of cells the receiver
\* of its CellFlipped events holds alive; main and ctlSlot are the requests
\* the two goroutines wait for; polls and sessions count the flip polls of
\* the session and the sessions started; closed counts the close(c.events)
\* executed and panic is the runtime panic that ended the driver: "send"
\* (send on closed channel) or "close" (close of closed channel); cmd is the
\* key the control goroutine is handling and got the 'q' or 'k' it took
\* from c.keyPresses during the run and has not yet answered with its call;
\* failed is the last call of the driver that returned an error.  Until
\* EvolveWorld has returned, seed is the grid read from the image, cont
\* what GetContinue answered and ann the cells of the initial CellFlipped
\* events, in the order sent.  batch is what the control goroutine sent
\* to c.events for the reply of its last poll.  While the QuitServer
\* call of a key 'q' is out, global is goWorld and r.turn, the reply of
\* the GetGlobal call that preceded it.
NoDrv == [phase |-> "off", ctl |-> "none", world |-> NilWorld, turns |-> 0,
          obs |-> {}, main |-> 0, ctlSlot |-> 0, polls |-> 0, sessions |-> 0,
          closed |-> 0, panic |-> "none", cmd |-> "none", got |-> "none",
          failed |-> "none", seed |-> NilWorld,
          cont |-> [Continue |-> FALSE, World |-> NilWorld], ann |-> <<>>,
          batch |-> <<>>, global |-> [World |-> NilWorld, Turns |-> 0]]

vars == <<World, LastWorld, Turn, Mu, Quit, TurnDone, Continue, Workers, node, proc, slot, ncalls, hist, drv, job>>

\* engine/broker.go, main: the nodes that answered the port scan are
\* registered; the Broker starts with zero values and Continue false.
Init ==
  /\ World = NilWorld
  /\ LastWorld = NilWorld
  /\ Turn = 0
  /\ Mu = FALSE
  /\ Quit = FALSE
  /\ TurnDone = FALSE
  /\ Continue = FALSE
  /\ Workers \in 0..MaxWorkers
  /\ node = [i \in 1..Workers |-> "up"]
  /\ proc = "up"
  /\ slot = [s \in Slots |-> FreeSlot]
  /\ ncalls = 0
  /\ hist = NoHist
  /\ drv = NoDrv
  /\ job = NoJob

\* One step of an EvolveWorld handler, or of a node serving it.
EvolveStep(s) ==
  \/ EvolveResetQuit(s)
  \/ EvolveAdopt(s)
  \/ EvolveResetTurn(s)
  \/ EvolveSetLast(s)
  \/ EvolveLoop(s)
  \/ EvolveLock(s)
  \/ EvolveSend(s)
  \/ \E id \in 1..Workers : WorkerReply(s, id)
  \/ EvolveCollect(s)
  \/ EvolveIncTurn(s)
  \/ EvolveTurnDone(s)
  \/ EvolveUnlock(s)
  \/ EvolveReturn(s)

\* One step of a Pause, Unpause, QuitServer or KillServer handler.
ControlStep(s) ==
  \/ HandlerLock(s)
  \/ HandlerUnlock(s)
  \/ QuitSetContinue(s)
  \/ QuitSetQuit(s)
  \/ QuitSetLast(s)
  \/ KillWorkers(s)
  \/ \E id \in 1..Workers : WorkerFail(s, id)
  \/ KillSetQuit(s)
  \/ KillSignal(s)

ControlOps == {"Pause", "Unpause", "QuitServer", "KillServer"}

\* The run and its control calls, sent by any clients in any order.
Next ==
  \/ \E s \in Slots : EvolveStep(s)
  \/ \E s \in Slots : ControlStep(s)
  \/ \E s \in Slots, op \in ControlOps : Call(s, op, NilWorld, 0)
  \/ \E s \in Slots, grid \in Seeds, turns \in 1..MaxTurns : CallEvolve(s, grid, turns)

Spec == Init /\ [][Next]_vars

\* ------------------------------------------------------------ a tall grid
\* A broker that registered TallWorkers nodes serves runs of one turn on
\* the tall grid, one run at a time and no other call.
InitTall ==
  /\ World = NilWorld
  /\ LastWorld = NilWorld
  /\ Turn = 0
  /\ Mu = FALSE
  /\ Quit = FALSE
  /\ TurnDone = FALSE
  /\ Continue = FALSE
  /\ Workers = TallWorkers
  /\ node = [i \in 1..Workers |-> "up"]
  /\ proc = "up"
  /\ slot = [s \in Slots |-> FreeSlot]
  /\ ncalls = 0
  /\ hist = NoHist
  /\ drv = NoDrv
  /\ job = NoJob

NextTall ==
  \/ \E s \in Slots : EvolveStep(s)
  \/ \E s \in Slots : CallEvolve(s, TallGrid, 1)

SpecTall == InitTall /\ [][NextTall]_vars

\* ------------------------------------------------------ pause and resume
\* distributor, key 'p' during a run: Pause; and at the next 'p', once the
\* Pause has returned, Unpause.
KeyPause(s) ==
  /\ \E t \in Slots : InFlight(t)
  /\ ~hist.pauseHeld
  /\ \A t \in Slots : ~(slot[t].op = "Pause" /\ slot[t].pc # "free")
  /\ Call(s, "Pause", NilWorld, 0)

KeyUnpause(s) ==
  /\ hist.pauseHeld
  /\ Call(s, "Unpause", NilWorld, 0)

\* Runs, one at a time, that the driver pauses and resumes; every node
\* replies.
NextPause ==
  \/ \E s \in Slots : EvolveStep(s)
  \/ \E s \in Slots : HandlerLock(s)
  \/ \E s \in Slots : HandlerUnlock(s)
  \/ \E s \in Slots : KeyPause(s)
  \/ \E s \in Slots : KeyUnpause(s)
  \/ \E s \in Slots, grid \in Seeds, turns \in 1..MaxTurns : CallEvolve(s, grid, turns)

\* Every handler goroutine that can take a step takes one, and every node
\* answers; no key press is bound to come.
FairPause ==
  \A s \in Slots :
    /\ WF_vars(EvolveStep(s))
    /\ WF_vars(HandlerLock(s))
    /\ WF_vars(HandlerUnlock(s))

SpecPause == Init /\ [][NextPause]_vars /\ FairPause

\* -------------------------------------------------------------- terminate
\* A run, a Pause and KillServer calls, with nodes that die or stop
\* answering at any time.
NextKill ==
  \/ \E s \in Slots : EvolveStep(s)
  \/ \E s \in Slots : HandlerLock(s)
  \/ \E s \in Slots : KillWorkers(s)
  \/ \E s \in Slots : KillSetQuit(s)
  \/ \E s \in Slots : KillSignal(s)
  \/ \E s \in Slots, id \in 1..Workers : WorkerFail(s, id)
  \/ \E i \in 1..Workers : NodeCrash(i)
  \/ \E i \in 1..Workers : NodeHang(i)
  \/ \E s \in Slots, op \in {"Pause", "KillServer"} : Call(s, op, NilWorld, 0)
  \/ \E s \in Slots, grid \in Seeds, turns \in 1..MaxTurns : CallEvolve(s, grid, turns)

\* Every goroutine of the broker that can take a step takes one.
FairKill ==
  \A s \in Slots :
    /\ WF_vars(EvolveStep(s))
    /\ WF_vars(HandlerLock(s))
    /\ WF_vars(KillWorkers(s))
    /\ WF_vars(KillSetQuit(s))
    /\ WF_vars(KillSignal(s))
    /\ \A id \in 1..MaxWorkers : WF_vars(WorkerFail(s, id))

SpecKill == Init /\ [][NextKill]_vars /\ FairKill

\* ----------------------------------------------------------- the driver
\* gol/distributor.go.  The main goroutine asks GetContinue, announces the
\* alive cells, starts the control goroutine, calls EvolveWorld and then
\* CalculateAliveCells; the control goroutine polls GetCellFlipped and, on
\* key 'q', calls GetGlobal and QuitServer and returns.  A goroutine waits
\* for the reply of its call before it goes on.
MainWaits == drv.phase \in {"cont", "run", "final"}
CtlWaits == drv.ctl \in {"poll", "glob", "quit", "kill", "pausing", "resuming"}

\* The slots whose reply a goroutine of the driver has still to read.
Owned == (IF MainWaits THEN {drv.main} ELSE {}) \cup (IF CtlWaits THEN {drv.ctlSlot} ELSE {})

\* client.Call of the driver: the request goes to a slot nobody waits on.
DriverSend(s, op, grid, turns) ==
  /\ s \notin Owned
  /\ \A t \in 1..(s - 1) : slot[t].pc # "free" \/ t \in Owned
  /\ Send(s, op, grid, turns)
  /\ ncalls' = ncalls

\* The reply of the call in slot s has arrived.
Replied(s, op) == slot[s].op = op /\ slot[s].pc = "free"

\* The cells the receiver of the events holds alive after the initial
\* CellFlipped events of world.
CellsAlive(world) == {AliveCells(world)[k] : k \in 1..Len(AliveCells(world))}

\* The receiver flips the cell of every CellFlipped event, in order.
RECURSIVE Toggle(_, _, _)
Toggle(cells, events, k) ==
  IF k > Len(events) THEN cells
  ELSE Toggle((cells \ {events[k].Cell}) \cup ({events[k].Cell} \ cells), events, k + 1)

\* The cells of the CellFlipped events the driver sends before the run:
\* for i := range world { for j := range world[i] { if world[i][j] == 255
RECURSIVE InitialFlips(_)
InitialFlips(world) ==
  IF Len(world) = 0 THEN <<>>
  ELSE LET i == Len(world)
           row == world[i]
           cells == [j \in 1..Len(row) |-> <<j - 1, i - 1>>]
       IN InitialFlips(SubSeq(world, 1, i - 1)) \o SelectSeq(cells, LAMBDA c : row[c[1] + 1] = 255)

\* The driver keeps the grid it read unless the broker holds a run to
\* continue.
ContinueWorldSeed(r, world) == world

\* if continueResponse.Continue { world = continueResponse.World }
ContinueWorld(r, world) == IF r.Continue THEN r.World ELSE world

\* distributor: read the grid, dial, call GetContinue.  A session starts
\* when the broker has served every request of the session before it.
DriverStart(s, grid, turns) ==
  /\ drv.phase = "off"
  /\ drv.sessions < MaxSessions
  /\ \A t \in Slots : slot[t].pc = "free"
  /\ DriverSend(s, "GetContinue", NilWorld, 0)
  /\ job' = job
  /\ drv' = [NoDrv EXCEPT !.phase = "cont", !.world = grid, !.turns = turns,
                          !.main = s, !.sessions = drv.sessions + 1,
                          !.seed = grid]

\* if continueResponse.Continue { world = continueResponse.World }; the
\* CellFlipped events of the alive cells; go func() { ... }()
DriverAnnounce ==
  /\ drv.phase = "cont"
  /\ Replied(drv.main, "GetContinue")
  /\ LET r == slot[drv.main].res
         world == ContinueWorld(r, drv.world)
     IN job' = job /\ drv' = [drv EXCEPT !.phase = "ready", !.ctl = "idle", !.world = world,
                           !.obs = CellsAlive(world),
                           !.cont = [Continue |-> r.Continue, World |-> r.World],
                           !.ann = InitialFlips(world)]
  /\ UNCHANGED <<bstate, slot, ncalls, hist>>

\* client.Call(stubs.EvolveWorldHandler, evolveRequest, evolveResponse)
DriverEvolve(s) ==
  /\ drv.phase = "ready"
  /\ DriverSend(s, "EvolveWorld", drv.world, drv.turns)
  /\ job' = job
  /\ drv' = [drv EXCEPT !.phase = "run", !.main = s]

\* The events of one poll: if len(cellUpdates) != 0, a CellFlipped for
\* every element and then a TurnComplete with the turn of the first.
PollEvents(cellUpdates) ==
  IF Len(cellUpdates) = 0 THEN <<>>
  ELSE [k \in 1..Len(cellUpdates) |->
          [event |-> "CellFlipped", CompletedTurns |-> cellUpdates[k].CompletedTurns,
           Cell |-> cellUpdates[k].Cell]]
       \o <<[event |-> "TurnComplete", CompletedTurns |-> cellUpdates[1].CompletedTurns,
             Cell |-> <<>>]>>

\* case <-tickSDL.C: client.Call(stubs.GetBrokerCellFlippedHandler, ...)
DriverPoll(s) ==
  /\ drv.ctl = "idle"
  /\ drv.polls < MaxPolls
  /\ DriverSend(s, "GetCellFlipped", NilWorld, 0)
  /\ job' = job
  /\ drv' = [drv EXCEPT !.ctl = "poll", !.ctlSlot = s, !.polls = @ + 1,
               !.batch = <<>>]

\* c.events <- CellFlipped{...} for every event of the reply
DriverFlips ==
  /\ drv.ctl = "poll"
  /\ Replied(drv.ctlSlot, "GetCellFlipped")
  /\ job' = job
  /\ drv' = [drv EXCEPT !.ctl = "idle",
               !.obs = Toggle(@, slot[drv.ctlSlot].res.FlippedEvents, 1),
               !.batch = PollEvents(slot[drv.ctlSlot].res.FlippedEvents)]
  /\ UNCHANGED <<bstate, slot, ncalls, hist>>

\* case command := <-c.keyPresses: client.Call(stubs.GetGlobalHandler, ...)
DriverKeyQ(s) ==
  /\ drv.ctl = "idle"
  /\ DriverSend(s, "GetGlobal", NilWorld, 0)
  /\ job' = job
  /\ drv' = [drv EXCEPT !.ctl = "glob", !.ctlSlot = s, !.cmd = "q",
               !.got = IF drv.phase = "run" THEN "q" ELSE @]

\* case 'q': client.Call(stubs.QuitHandler, empty, emptyResponse)
DriverQuit(s) ==
  /\ drv.ctl = "glob" /\ drv.cmd = "q"
  /\ Replied(drv.ctlSlot, "GetGlobal")
  /\ s = drv.ctlSlot
  /\ Send(s, "QuitServer", NilWorld, 0)
  /\ ncalls' = ncalls
  /\ job' = job
  /\ drv' = [drv EXCEPT !.ctl = "quit", !.got = "none",
               !.global = [World |-> slot[drv.ctlSlot].res.World,
                           Turns |-> slot[drv.ctlSlot].res.Turns]]

\* ... c.events <- StateChange{r.turn, Quitting}; savePGMImage;
\* close(c.events); done = true; return
DriverQuitDone ==
  /\ drv.ctl = "quit"
  /\ Replied(drv.ctlSlot, "QuitServer")
  /\ job' = job
  /\ drv' = [drv EXCEPT !.ctl = "none", !.closed = @ + 1,
               !.global = NoDrv.global]
  /\ UNCHANGED <<bstate, slot, ncalls, hist>>

\* case command := <-c.keyPresses with 'k': the GetGlobal call.
DriverKeyK(s) ==
  /\ drv.ctl = "idle"
  /\ DriverSend(s, "GetGlobal", NilWorld, 0)
  /\ job' = job
  /\ drv' = [drv EXCEPT !.ctl = "glob", !.ctlSlot = s, !.cmd = "k",
               !.got = IF drv.phase = "run" THEN "k" ELSE @]

\* case 'k': client.Call(stubs.KillServerHandler, empty, emptyResponse)
DriverKill(s) ==
  /\ drv.ctl = "glob" /\ drv.cmd = "k"
  /\ Replied(drv.ctlSlot, "GetGlobal")
  /\ s = drv.ctlSlot
  /\ Send(s, "KillServer", NilWorld, 0)
  /\ ncalls' = ncalls
  /\ job' = job
  /\ drv' = [drv EXCEPT !.ctl = "kill", !.got = "none"]

\* The KillServer call returns, with a reply or, the broker having exited,
\* with an error nobody looks at: StateChange Quitting, savePGMImage,
\* close(c.events); done = true; return
DriverKillDone ==
  /\ drv.ctl = "kill"
  /\ Replied(drv.ctlSlot, "KillServer") \/ proc = "exited"
  /\ job' = job
  /\ drv' = [drv EXCEPT !.ctl = "none", !.closed = @ + 1]
  /\ UNCHANGED <<bstate, slot, ncalls, hist>>

\* case command := <-c.keyPresses with 'p': the GetGlobal call.
DriverKeyP(s) ==
  /\ drv.ctl = "idle"
  /\ DriverSend(s, "GetGlobal", NilWorld, 0)
  /\ job' = job
  /\ drv' = [drv EXCEPT !.ctl = "glob", !.ctlSlot = s, !.cmd = "p"]

\* case 'p': StateChange Paused; client.Call(stubs.PauseHandler, ...)
DriverPause(s) ==
  /\ drv.ctl = "glob" /\ drv.cmd = "p"
  /\ Replied(drv.ctlSlot, "GetGlobal")
  /\ s = drv.ctlSlot
  /\ Send(s, "Pause", NilWorld, 0)
  /\ ncalls' = ncalls
  /\ job' = job
  /\ drv' = [drv EXCEPT !.ctl = "pausing"]

\* The Pause call has returned: for { if <-c.keyPresses == 'p' ... } }
DriverPaused ==
  /\ drv.ctl = "pausing"
  /\ Replied(drv.ctlSlot, "Pause")
  /\ job' = job
  /\ drv' = [drv EXCEPT !.ctl = "paused"]
  /\ UNCHANGED <<bstate, slot, ncalls, hist>>

\* In that loop a key other than 'p' is taken from c.keyPresses and
\* compared to 'p': nothing is done with it.
DriverDropKey(c) ==
  /\ drv.ctl = "paused"
  /\ drv.phase = "run"
  /\ drv.got # c
  /\ job' = job
  /\ drv' = [drv EXCEPT !.got = c]
  /\ UNCHANGED <<bstate, slot, ncalls, hist>>

\* The second 'p': client.Call(stubs.UnpauseHandler, empty, emptyResponse)
DriverResume(s) ==
  /\ drv.ctl = "paused"
  /\ s = drv.ctlSlot
  /\ Send(s, "Unpause", NilWorld, 0)
  /\ ncalls' = ncalls
  /\ job' = job
  /\ drv' = [drv EXCEPT !.ctl = "resuming"]

\* A mutant of DriverResumed: without the break, the control goroutine
\* stays in the loop that waits for a 'p'.
DriverResumedLoops ==
  /\ drv.ctl = "resuming"
  /\ Replied(drv.ctlSlot, "Unpause")
  /\ job' = job
  /\ drv' = [drv EXCEPT !.ctl = "paused"]
  /\ UNCHANGED <<bstate, slot, ncalls, hist>>

\* The Unpause call has returned: StateChange Executing, and the control
\* goroutine is back at its select.
DriverResumed ==
  /\ drv.ctl = "resuming"
  /\ Replied(drv.ctlSlot, "Unpause")
  /\ job' = job
  /\ drv' = [drv EXCEPT !.ctl = "idle", !.cmd = "none"]
  /\ UNCHANGED <<bstate, slot, ncalls, hist>>

\* The EvolveWorld call returns an error, the broker having exited:
\* log.Fatal ends the driver process.
DriverAbort ==
  /\ drv.phase = "run"
  /\ proc = "exited"
  /\ slot[drv.main].pc # "free"
  /\ job' = job
  /\ drv' = [drv EXCEPT !.phase = "off", !.ctl = "none", !.got = "none",
               !.failed = "EvolveWorld", !.global = NoDrv.global]
  /\ UNCHANGED <<bstate, slot, ncalls, hist>>

\* world = evolveResponse.World; client.Call(stubs.AliveCellsHandler, ...)
DriverFinal(s) ==
  /\ drv.phase = "run"
  /\ Replied(drv.main, "EvolveWorld")
  /\ s = drv.main
  /\ Send(s, "CalculateAliveCells", NilWorld, 0)
  /\ ncalls' = ncalls
  /\ job' = job
  /\ drv' = [drv EXCEPT !.phase = "final", !.world = slot[drv.main].res.World,
               !.seed = NilWorld, !.cont = NoDrv.cont, !.ann = <<>>]

\* A mutant of DriverExit: the control goroutine outlives the end of the
\* main flow.
DriverExitAlone ==
  /\ drv.phase = "final"
  /\ Replied(drv.main, "CalculateAliveCells")
  /\ job' = job
  /\ drv' = IF drv.closed > 0
              THEN [drv EXCEPT !.phase = "off", !.panic = "send"]
              ELSE [drv EXCEPT !.phase = "off", !.closed = 1]
  /\ UNCHANGED <<bstate, slot, ncalls, hist>>

\* c.events <- FinalTurnComplete{turn, aliveCells}, which panics (send on
\* closed channel) when the control goroutine has closed c.events; else
\* savePGMImage, StateChange, close(c.events).  The session is over and the
\* driver process ends, its control goroutine with it.
DriverExit ==
  /\ drv.phase = "final"
  /\ Replied(drv.main, "CalculateAliveCells")
  /\ job' = job
  /\ drv' = IF drv.closed > 0
              THEN [drv EXCEPT !.phase = "off", !.ctl = "none", !.panic = "send",
                               !.global = NoDrv.global]
              ELSE [drv EXCEPT !.phase = "off", !.ctl = "none", !.closed = 1,
                               !.global = NoDrv.global]
  /\ UNCHANGED <<bstate, slot, ncalls, hist>>

\* A broker that registered at least one node serves the sessions of a
\* driver, one session after the other.
InitDriver ==
  /\ World = NilWorld
  /\ LastWorld = NilWorld
  /\ Turn = 0
  /\ Mu = FALSE
  /\ Quit = FALSE
  /\ TurnDone = FALSE
  /\ Continue = FALSE
  /\ Workers \in 1..MaxWorkers
  /\ node = [i \in 1..Workers |-> "up"]
  /\ proc = "up"
  /\ slot = [s \in Slots |-> FreeSlot]
  /\ ncalls = 0
  /\ hist = NoHist
  /\ drv = NoDrv
  /\ job = NoJob

NextDriver ==
  \/ \E s \in Slots, grid \in Seeds, turns \in 1..MaxTurns : DriverStart(s, grid, turns)
  \/ DriverAnnounce
  \/ \E s \in Slots : DriverEvolve(s)
  \/ \E s \in Slots : DriverPoll(s)
  \/ DriverFlips
  \/ \E s \in Slots : DriverKeyQ(s)
  \/ \E s \in Slots : DriverQuit(s)
  \/ DriverQuitDone
  \/ \E s \in Slots : DriverFinal(s)
  \/ DriverExit
  \/ \E s \in Slots : EvolveStep(s)
  \/ \E s \in Slots, id \in 1..Workers : WorkerFail(s, id)
  \/ \E s \in Slots : HandlerLock(s)
  \/ \E s \in Slots : HandlerUnlock(s)
  \/ \E s \in Slots : GetContinue(s)
  \/ \E s \in Slots : GetCellFlipped(s)
  \/ \E s \in Slots : GetGlobal(s)
  \/ \E s \in Slots : CalculateAliveCells(s)
  \/ \E s \in Slots : QuitSetContinue(s)
  \/ \E s \in Slots : QuitSetQuit(s)
  \/ \E s \in Slots : QuitSetLast(s)

SpecDriver == InitDriver /\ [][NextDriver]_vars

\* ---------------------------------------------------------------- queries
\* The handlers that take the mutex for the length of the call.
QueryOps == {"CalculateAliveCells", "AliveCellsCount", "GetGlobal",
             "GetTurnDone", "GetContinue", "GetCellFlipped"}

\* Runs, one at a time, with queries, Pause and QuitServer calls of any
\* clients at any time; an Unpause is sent only for a Pause that has
\* returned, as the driver does.
NextQuery ==
  \/ \E s \in Slots : EvolveStep(s)
  \/ \E s \in Slots : HandlerLock(s)
  \/ \E s \in Slots : HandlerUnlock(s)
  \/ \E s \in Slots : CalculateAliveCells(s)
  \/ \E s \in Slots : AliveCellsCount(s)
  \/ \E s \in Slots : GetGlobal(s)
  \/ \E s \in Slots : GetTurnDone(s)
  \/ \E s \in Slots : GetContinue(s)
  \/ \E s \in Slots : GetCellFlipped(s)
  \/ \E s \in Slots : QuitSetContinue(s)
  \/ \E s \in Slots : QuitSetQuit(s)
  \/ \E s \in Slots : QuitSetLast(s)
  \/ \E s \in Slots : KeyUnpause(s)
  \/ \E s \in Slots, op \in QueryOps \cup {"Pause", "QuitServer"} : Call(s, op, NilWorld, 0)
  \/ \E s \in Slots, grid \in Seeds, turns \in 1..MaxTurns : CallEvolve(s, grid, turns)

SpecQuery == InitDriver /\ [][NextQuery]_vars

\* -------------------------------------------------------- concurrent runs
\* A request of one of several drivers: up to MaxRunCalls requests in all.
RunCall(s, op, grid, turns) ==
  /\ ncalls < MaxRunCalls
  /\ \A t \in 1..(s - 1) : slot[t].pc # "free"
  /\ Send(s, op, grid, turns)
  /\ ncalls' = ncalls + 1
  /\ UNCHANGED <<drv, job>>

\* A driver pauses, and resumes once its Pause has returned.
RunPause(s) ==
  /\ ~hist.pauseHeld
  /\ \A t \in Slots : ~(slot[t].op = "Pause" /\ slot[t].pc # "free")
  /\ RunCall(s, "Pause", NilWorld, 0)

RunUnpause(s) ==
  /\ hist.pauseHeld
  /\ RunCall(s, "Unpause", NilWorld, 0)

\* The run request of one of MaxDrivers drivers, each of which waits for
\* the answer of its run.
RunEvolve(s) ==
  /\ Cardinality({t \in Slots : InFlight(t)}) < MaxDrivers
  /\ RunCall(s, "EvolveWorld", GridOf(BlinkerCells, Width, Height), 1)

\* Several drivers use one broker: EvolveWorld requests are served at the
\* same time, with the Pause and Unpause calls and the alive-count polls of
\* the drivers; every node replies.
NextRuns ==
  \/ \E s \in Slots : EvolveStep(s)
  \/ \E s \in Slots : HandlerLock(s)
  \/ \E s \in Slots : HandlerUnlock(s)
  \/ \E s \in Slots : AliveCellsCount(s)
  \/ \E s \in Slots : RunPause(s)
  \/ \E s \in Slots : RunUnpause(s)
  \/ \E s \in Slots : RunCall(s, "AliveCellsCount", NilWorld, 0)
  \/ \E s \in Slots : RunEvolve(s)

SpecRuns == InitDriver /\ [][NextRuns]_vars

\* ------------------------------------------------- the end of a session
\* Sessions of a driver on the blinker, with its polls and its key 'q',
\* each with a turn budget one below that of the session before.
StopStart(s) ==
  DriverStart(s, GridOf(BlinkerCells, Width, Height), MaxTurns - drv.sessions)

NextStop ==
  \/ \E s \in Slots : StopStart(s)
  \/ DriverAnnounce
  \/ \E s \in Slots : DriverEvolve(s)
  \/ \E s \in Slots : DriverPoll(s)
  \/ DriverFlips
  \/ \E s \in Slots : DriverKeyQ(s)
  \/ \E s \in Slots : DriverQuit(s)
  \/ DriverQuitDone
  \/ \E s \in Slots : DriverFinal(s)
  \/ DriverExit
  \/ \E s \in Slots : EvolveStep(s)
  \/ \E s \in Slots : HandlerLock(s)
  \/ \E s \in Slots : HandlerUnlock(s)
  \/ \E s \in Slots : GetContinue(s)
  \/ \E s \in Slots : GetCellFlipped(s)
  \/ \E s \in Slots : GetGlobal(s)
  \/ \E s \in Slots : CalculateAliveCells(s)
  \/ \E s \in Slots : QuitSetContinue(s)
  \/ \E s \in Slots : QuitSetQuit(s)
  \/ \E s \in Slots : QuitSetLast(s)

\* A step of the main flow of the driver, of its control goroutine other
\* than a tick or a key press, and of the handler goroutine of slot s.
StopMain == DriverAnnounce \/ (\E s \in Slots : DriverEvolve(s) \/ DriverFinal(s)) \/ DriverExit

StopControl == DriverFlips \/ (\E s \in Slots : DriverQuit(s)) \/ DriverQuitDone

StopHandler(s) ==
  \/ EvolveStep(s)
  \/ HandlerLock(s)
  \/ HandlerUnlock(s)
  \/ GetContinue(s)
  \/ GetCellFlipped(s)
  \/ GetGlobal(s)
  \/ CalculateAliveCells(s)
  \/ QuitSetContinue(s)
  \/ QuitSetQuit(s)
  \/ QuitSetLast(s)

\* Every goroutine of the driver and of the broker that can take a step
\* takes one; no tick and no key press is bound to come.
FairStop ==
  /\ WF_vars(StopMain)
  /\ WF_vars(StopControl)
  /\ \A s \in Slots : WF_vars(StopHandler(s))

SpecStop == InitDriver /\ [][NextStop]_vars /\ FairStop

\* ------------------------------------------------ runs after a checkpoint
\* Drivers come one after the other: each submits a run and may end it
\* with QuitServer.
ResumeEvolve(s, grid, turns) ==
  /\ \A t \in Slots : ~InFlight(t)
  /\ RunCall(s, "EvolveWorld", grid, turns)

ResumeQuit(s) ==
  /\ \A t \in Slots : ~(slot[t].op = "QuitServer" /\ slot[t].pc # "free")
  /\ RunCall(s, "QuitServer", NilWorld, 0)

NextResume ==
  \/ \E s \in Slots : EvolveStep(s)
  \/ \E s \in Slots : HandlerLock(s)
  \/ \E s \in Slots : HandlerUnlock(s)
  \/ \E s \in Slots : QuitSetContinue(s)
  \/ \E s \in Slots : QuitSetQuit(s)
  \/ \E s \in Slots : QuitSetLast(s)
  \/ \E s \in Slots : ResumeQuit(s)
  \/ \E s \in Slots, grid \in Seeds, turns \in 1..MaxTurns : ResumeEvolve(s, grid, turns)

SpecResume == InitDriver /\ [][NextResume]_vars

\* --------------------------------------------------------- key commands
\* One session of a driver, of MaxTurns turns on the blinker, whose user
\* presses 'q', 'k' and 'p'; a node may stop answering.
KeysStart(s) ==
  /\ drv.sessions = 0
  /\ DriverStart(s, GridOf(BlinkerCells, Width, Height), MaxTurns)

NextKeys ==
  \/ \E s \in Slots : KeysStart(s)
  \/ DriverAnnounce
  \/ \E s \in Slots : DriverEvolve(s)
  \/ \E s \in Slots : DriverKeyQ(s)
  \/ \E s \in Slots : DriverQuit(s)
  \/ DriverQuitDone
  \/ \E s \in Slots : DriverKeyK(s)
  \/ \E s \in Slots : DriverKill(s)
  \/ DriverKillDone
  \/ \E s \in Slots : DriverKeyP(s)
  \/ \E s \in Slots : DriverPause(s)
  \/ DriverPaused
  \/ \E c \in {"q", "k"} : DriverDropKey(c)
  \/ \E s \in Slots : DriverResume(s)
  \/ DriverResumed
  \/ DriverAbort
  \/ \E s \in Slots : DriverFinal(s)
  \/ DriverExit
  \/ \E s \in Slots : EvolveStep(s)
  \/ \E s \in Slots : HandlerLock(s)
  \/ \E s \in Slots : HandlerUnlock(s)
  \/ \E s \in Slots : GetContinue(s)
  \/ \E s \in Slots : GetGlobal(s)
  \/ \E s \in Slots : CalculateAliveCells(s)
  \/ \E s \in Slots : QuitSetContinue(s)
  \/ \E s \in Slots : QuitSetQuit(s)
  \/ \E s \in Slots : QuitSetLast(s)
  \/ \E s \in Slots : KillWorkers(s)
  \/ \E s \in Slots : KillSetQuit(s)
  \/ \E s \in Slots : KillSignal(s)
  \/ \E i \in 1..Workers : NodeHang(i)

\* Every goroutine of the driver and of the broker that can take a step
\* takes one; the user is not bound to press a key.
FairKeys ==
  /\ WF_vars(DriverAnnounce)
  /\ WF_vars(DriverQuitDone)
  /\ WF_vars(DriverKillDone)
  /\ WF_vars(DriverPaused)
  /\ WF_vars(DriverResumed)
  /\ WF_vars(DriverAbort)
  /\ WF_vars(DriverExit)
  /\ \A s \in Slots :
       /\ WF_vars(DriverEvolve(s))
       /\ WF_vars(DriverQuit(s))
       /\ WF_vars(DriverKill(s))
       /\ WF_vars(DriverPause(s))
       /\ WF_vars(DriverFinal(s))
       /\ WF_vars(EvolveStep(s))
       /\ WF_vars(HandlerLock(s))
       /\ WF_vars(HandlerUnlock(s))
       /\ WF_vars(GetContinue(s))
       /\ WF_vars(GetGlobal(s))
       /\ WF_vars(CalculateAliveCells(s))
       /\ WF_vars(QuitSetContinue(s))
       /\ WF_vars(QuitSetQuit(s))
       /\ WF_vars(QuitSetLast(s))
       /\ WF_vars(KillWorkers(s))
       /\ WF_vars(KillSetQuit(s))
       /\ WF_vars(KillSignal(s))

SpecKeys == InitDriver /\ [][NextKeys]_vars /\ FairKeys

\* ---------------------------------------------------------- failed calls
\* A call of the driver returns an error: the broker process has exited
\* before it answered.
Failed(s) == proc # "up" /\ slot[s].pc # "free"

\* err = client.Call(stubs.GetContinueHandler, ...) with the error not
\* looked at: continueResponse.Continue is false, the driver goes on with
\* the grid it read.
DriverContinueFails ==
  /\ drv.phase = "cont"
  /\ Failed(drv.main)
  /\ job' = job
  /\ drv' = [drv EXCEPT !.phase = "ready", !.ctl = "idle", !.obs = CellsAlive(drv.world),
               !.failed = "GetContinue"]
  /\ UNCHANGED <<bstate, slot, ncalls, hist>>

\* client.Call(stubs.EvolveWorldHandler, ...) on the connection of a broker
\* that has exited: log.Fatal.
DriverEvolveFails ==
  /\ drv.phase = "ready"
  /\ proc # "up"
  /\ job' = job
  /\ drv' = [drv EXCEPT !.phase = "off", !.ctl = "none", !.failed = "EvolveWorld"]
  /\ UNCHANGED <<bstate, slot, ncalls, hist>>

\* err = client.Call(stubs.GetBrokerCellFlippedHandler, ...) with the error
\* not looked at: cellUpdates is empty, no event is sent and the control
\* goroutine is back at its select.
DriverPollFails ==
  /\ drv.ctl = "poll"
  /\ Failed(drv.ctlSlot)
  /\ job' = job
  /\ drv' = [drv EXCEPT !.ctl = "idle", !.failed = "GetCellFlipped"]
  /\ UNCHANGED <<bstate, slot, ncalls, hist>>

\* err = client.Call(stubs.GetGlobalHandler, ...); if err != nil: log.Fatal.
DriverGlobalFails ==
  /\ drv.ctl = "glob"
  /\ Failed(drv.ctlSlot)
  /\ job' = job
  /\ drv' = [drv EXCEPT !.phase = "off", !.ctl = "none", !.failed = "GetGlobal"]
  /\ UNCHANGED <<bstate, slot, ncalls, hist>>

\* err = client.Call(stubs.QuitHandler, ...) with the error not looked at:
\* StateChange Quitting, savePGMImage, close(c.events); done = true; return
DriverQuitFails ==
  /\ drv.ctl = "quit"
  /\ Failed(drv.ctlSlot)
  /\ job' = job
  /\ drv' = [drv EXCEPT !.ctl = "none", !.closed = @ + 1, !.failed = "QuitServer",
               !.global = NoDrv.global]
  /\ UNCHANGED <<bstate, slot, ncalls, hist>>

\* err = client.Call(stubs.AliveCellsHandler, ...); if err != nil: log.Fatal.
DriverFinalFails ==
  /\ drv.phase = "final"
  /\ Failed(drv.main)
  /\ job' = job
  /\ drv' = [drv EXCEPT !.phase = "off", !.ctl = "none", !.failed = "CalculateAliveCells"]
  /\ UNCHANGED <<bstate, slot, ncalls, hist>>

\* Another client of the broker calls KillServer while the driver's
\* session is on.
OtherKill(s) ==
  /\ drv.phase # "off"
  /\ \A t \in Slots : ~(slot[t].op = "KillServer" /\ slot[t].pc # "free")
  /\ Call(s, "KillServer", NilWorld, 0)

\* One session of a driver on the blinker, with its polls and its key 'q',
\* on a broker that another client may terminate.
NextFail ==
  \/ \E s \in Slots : KeysStart(s)
  \/ DriverAnnounce
  \/ DriverContinueFails
  \/ \E s \in Slots : DriverEvolve(s)
  \/ DriverEvolveFails
  \/ DriverAbort
  \/ \E s \in Slots : DriverPoll(s)
  \/ DriverFlips
  \/ DriverPollFails
  \/ \E s \in Slots : DriverKeyQ(s)
  \/ DriverGlobalFails
  \/ \E s \in Slots : DriverQuit(s)
  \/ DriverQuitDone
  \/ DriverQuitFails
  \/ \E s \in Slots : DriverFinal(s)
  \/ DriverFinalFails
  \/ DriverExit
  \/ \E s \in Slots : OtherKill(s)
  \/ \E s \in Slots : EvolveStep(s)
  \/ \E s \in Slots : HandlerLock(s)
  \/ \E s \in Slots : HandlerUnlock(s)
  \/ \E s \in Slots : GetContinue(s)
  \/ \E s \in Slots : GetCellFlipped(s)
  \/ \E s \in Slots : GetGlobal(s)
  \/ \E s \in Slots : CalculateAliveCells(s)
  \/ \E s \in Slots : QuitSetContinue(s)
  \/ \E s \in Slots : QuitSetQuit(s)
  \/ \E s \in Slots : QuitSetLast(s)
  \/ \E s \in Slots : KillWorkers(s)
  \/ \E s \in Slots : KillSetQuit(s)
  \/ \E s \in Slots : KillSignal(s)

SpecFail == InitDriver /\ [][NextFail]_vars

\* ------------------------------------------------------ a node on its own
\* The grids of 0 and 255 of up to CalcWidth columns and CalcHeight rows.
CalcGrids ==
  UNION {[1..height -> [1..width -> {0, Alive}]] :
           width \in 1..CalcWidth, height \in 1..CalcHeight}

\* A node has received a CalculateWorld request (stubs.WorldReq) for a row
\* range of a grid; before is the grid as it was sent.
InitNode ==
  /\ World = NilWorld
  /\ LastWorld = NilWorld
  /\ Turn = 0
  /\ Mu = FALSE
  /\ Quit = FALSE
  /\ TurnDone = FALSE
  /\ Continue = FALSE
  /\ Workers = 0
  /\ node = << >>
  /\ proc = "up"
  /\ slot = [s \in Slots |-> FreeSlot]
  /\ ncalls = 0
  /\ hist = NoHist
  /\ drv = NoDrv
  /\ \E world \in CalcGrids :
       \E startRow \in 0..Len(world) : \E endRow \in startRow..Len(world) :
         job = [kind |-> "calc", st |-> "sent", World |-> world, before |-> world,
                Width |-> Len(world[1]), Height |-> Len(world),
                StartRow |-> startRow, EndRow |-> endRow, rows |-> << >>]

\* WorldOps.CalculateWorld: res.World = calculateNextState(req.World,
\* req.Width, req.Height, req.StartRow, req.EndRow); the function reads
\* world and writes a slice of its own.
CalculateWorld ==
  /\ job.kind = "calc"
  /\ job.st = "sent"
  /\ job' = [job EXCEPT !.st = "ok",
               !.rows = calculateNextState(job.World, job.Width, job.Height,
                                           job.StartRow, job.EndRow)]
  /\ UNCHANGED <<bstate, slot, ncalls, hist, drv>>

NextNode == CalculateWorld

SpecNode == InitNode /\ [][NextNode]_vars

\* --------------------------------------------------- the chunks of a node
\* The node's calculateNextState on its own: the loop that starts one
\* goroutine per chunk of chunkSize rows, the goroutines in any order, and
\* wg.Wait().  The grids repeat a tile of TileRows rows, so that the rows
\* of two chunks differ.
ChunkGrids ==
  {[i \in 1..height |-> tile[((i - 1) % TileRows) + 1]] :
     tile \in [1..TileRows -> [1..ChunkWidth -> {0, Alive}]],
     height \in 1..ChunkHeight}

\* The values of the loop's counter chunk on a grid of ChunkHeight rows.
ChunkIds == 0..((ChunkHeight + chunkSize - 1) \div chunkSize - 1)

\* numChunks := (endRow - startRow + chunkSize - 1) / chunkSize
numChunks(startRow, endRow) == (endRow - startRow + chunkSize - 1) \div chunkSize

\* A mutant of chunkStart: the chunks start chunkSize - 1 rows apart.
chunkStartOverlap(startRow, chunk) == startRow + chunk * (chunkSize - 1)

\* chunkStart := startRow + chunk*chunkSize
chunkStart(startRow, chunk) == startRow + chunk * chunkSize

\* chunkEnd := chunkStart + chunkSize; if chunkEnd > endRow { chunkEnd = endRow }
chunkEnd(startRow, endRow, chunk) ==
  IF chunkStart(startRow, chunk) + chunkSize > endRow
    THEN endRow
    ELSE chunkStart(startRow, chunk) + chunkSize

\* Row i as the goroutine of a chunk computes it (its loop over j).
chunkRow(world, width, height, i) ==
  [c \in 1..width |->
     LET j == c - 1
         sum == (world[((i + height - 1) % height) + 1][((j + width - 1) % width) + 1]
               + world[((i + height - 1) % height) + 1][((j + width) % width) + 1]
               + world[((i + height - 1) % height) + 1][((j + width + 1) % width) + 1]
               + world[((i + height) % height) + 1][((j + width - 1) % width) + 1]
               + world[((i + height) % height) + 1][((j + width + 1) % width) + 1]
               + world[((i + height + 1) % height) + 1][((j + width - 1) % width) + 1]
               + world[((i + height + 1) % height) + 1][((j + width) % width) + 1]
               + world[((i + height + 1) % height) + 1][((j + width + 1) % width) + 1])
               \div 255
     IN IF world[i + 1][j + 1] = 255
          THEN (IF sum < 2 \/ sum > 3 THEN 0 ELSE 255)
          ELSE (IF sum = 3 THEN 255 ELSE 0)]

\* The sequential calculateNextState of stubs.go: nextState after the loop
\* over i has run from startRow up to row (exclusive), the rows in order.
RECURSIVE sequentialNextState(_, _, _, _, _)
sequentialNextState(world, width, height, startRow, row) ==
  IF row <= startRow THEN << >>
  ELSE Append(sequentialNextState(world, width, height, startRow, row - 1),
         [c \in 1..width |->
            LET i == row - 1
                j == c - 1
                sum == (At(world, (i + height - 1) % height, (j + width - 1) % width)
                      + At(world, (i + height - 1) % height, (j + width) % width)
                      + At(world, (i + height - 1) % height, (j + width + 1) % width)
                      + At(world, (i + height) % height, (j + width - 1) % width)
                      + At(world, (i + height) % height, (j + width + 1) % width)
                      + At(world, (i + height + 1) % height, (j + width - 1) % width)
                      + At(world, (i + height + 1) % height, (j + width) % width)
                      + At(world, (i + height + 1) % height, (j + width + 1) % width))
                      \div 255
            IN IF At(world, i, j) = 255
                 THEN (IF sum < 2 \/ sum > 3 THEN 0 ELSE 255)
                 ELSE (IF sum = 3 THEN 255 ELSE 0)])

\* nextState := make([][]byte, endRow-startRow), every row of width
\* zeroes; chunk is the loop's counter, tasks the goroutines started and
\* not yet finished, chunks the ranges they were started with and
\* writers[r] the chunks whose goroutine wrote row r of nextState.
InitChunk ==
  /\ World = NilWorld
  /\ LastWorld = NilWorld
  /\ Turn = 0
  /\ Mu = FALSE
  /\ Quit = FALSE
  /\ TurnDone = FALSE
  /\ Continue = FALSE
  /\ Workers = 0
  /\ node = << >>
  /\ proc = "up"
  /\ slot = [s \in Slots |-> FreeSlot]
  /\ ncalls = 0
  /\ hist = NoHist
  /\ drv = NoDrv
  /\ \E world \in ChunkGrids :
       \E startRow \in 0..Len(world) : \E endRow \in startRow..Len(world) :
         job = [kind |-> "chunk", st |-> "launch", world |-> world,
                width |-> ChunkWidth, height |-> Len(world),
                startRow |-> startRow, endRow |-> endRow,
                nextState |-> [r \in 1..(endRow - startRow) |->
                                 [c \in 1..ChunkWidth |-> 0]],
                chunk |-> 0, tasks |-> {}, chunks |-> << >>,
                writers |-> [r \in 1..(endRow - startRow) |-> {}]]

\* One iteration of the loop over chunk: wg.Add(1); go func(chunkStart,
\* chunkEnd int) {...}(chunkStart, chunkEnd)
ChunkLaunch ==
  /\ job.kind = "chunk" /\ job.st = "launch"
  /\ job.chunk < numChunks(job.startRow, job.endRow)
  /\ \E cs \in {chunkStart(job.startRow, job.chunk)},
        ce \in {chunkEnd(job.startRow, job.endRow, job.chunk)} :
       job' = [job EXCEPT
                 !.chunk = @ + 1,
                 !.tasks = @ \cup {[chunk |-> job.chunk, chunkStart |-> cs,
                                    chunkEnd |-> ce]},
                 !.chunks = Append(@, <<cs, ce>>)]
  /\ UNCHANGED <<bstate, slot, ncalls, hist, drv>>

\* The goroutine of a chunk: for i := chunkStart; i < chunkEnd; i++ it
\* writes nextState[i-startRow]; defer wg.Done().
ChunkTask(chunk) ==
  /\ job.kind = "chunk"
  /\ \E t \in job.tasks :
    /\ t.chunk = chunk
    /\ LET Mine(r) == /\ t.chunkStart <= job.startRow + r - 1
                      /\ job.startRow + r - 1 < t.chunkEnd
       IN job' = [job EXCEPT
                    !.tasks = @ \ {t},
                    !.nextState = [r \in DOMAIN @ |->
                       IF Mine(r)
                         THEN chunkRow(job.world, job.width, job.height,
                                       job.startRow + r - 1)
                         ELSE @[r]],
                    !.writers = [r \in DOMAIN @ |->
                       IF Mine(r) THEN @[r] \cup {t.chunk} ELSE @[r]]]
  /\ UNCHANGED <<bstate, slot, ncalls, hist, drv>>

\* The loop has started every chunk; wg.Wait() returns when every
\* goroutine has finished; return nextState
ChunkWait ==
  /\ job.kind = "chunk" /\ job.st = "launch"
  /\ job.chunk = numChunks(job.startRow, job.endRow)
  /\ job.tasks = {}
  /\ job' = [job EXCEPT !.st = "done"]
  /\ UNCHANGED <<bstate, slot, ncalls, hist, drv>>

NextChunk ==
  \/ ChunkLaunch
  \/ \E chunk \in ChunkIds : ChunkTask(chunk)
  \/ ChunkWait

SpecChunk == InitChunk /\ [][NextChunk]_vars

\* ------------------------------------------------ the partition of a turn
\* The grid a turn is computed on: a fixed pattern of height rows.
PartGrid(height) ==
  [i \in 1..height |-> [j \in 1..PartWidth |->
      IF (i + 2 * j) % 3 = 0 THEN Alive ELSE 0]]

\* One turn of EvolveWorld with the remote calls left out: threads workers,
\* each answering at once, on a grid of height rows, for a request whose
\* Threads field is pThreads.
InitParts ==
  /\ World = NilWorld
  /\ LastWorld = NilWorld
  /\ Turn = 0
  /\ Mu = FALSE
  /\ Quit = FALSE
  /\ TurnDone = FALSE
  /\ Continue = FALSE
  /\ Workers = 0
  /\ node = << >>
  /\ proc = "up"
  /\ slot = [s \in Slots |-> FreeSlot]
  /\ ncalls = 0
  /\ hist = NoHist
  /\ drv = NoDrv
  /\ \E height \in 1..PartHeight, threads \in 1..PartThreads, pThreads \in 1..PartParam :
       job = [kind |-> "part", st |-> "fanning", World |-> PartGrid(height),
              height |-> height, threads |-> threads, pThreads |-> pThreads, id |-> 0,
              ranges |-> << >>, slices |-> << >>, newWorld |-> NilWorld]

\* A mutant of workerRange: the rows are divided by p.Threads.
workerRangeParam(id, height, pThreads, threads) ==
  <<StartRow(id, height, pThreads), EndRow(id, height, pThreads)>>

\* worker(id, world, results, p, client, threads) with p.ImageHeight =
\* height and p.Threads = pThreads: its startRow and endRow.
workerRange(id, height, pThreads, threads) ==
  <<StartRow(id, height, threads), EndRow(id, height, threads)>>

\* worker(id, ...): the range of worker id, its request and the reply it
\* sends on results[id].
PartWorker ==
  /\ job.kind = "part" /\ job.st = "fanning"
  /\ job.id < job.threads
  /\ \E range \in {workerRange(job.id, job.height, job.pThreads, job.threads)} :
       job' = [job EXCEPT
                 !.id = @ + 1,
                 !.ranges = Append(@, range),
                 !.slices = Append(@, [st |-> "ok", world |-> NilWorld,
                    rows |-> calculateNextState(job.World, PartWidth, job.height,
                                                range[1], range[2])])]
  /\ UNCHANGED <<bstate, slot, ncalls, hist, drv>>

\* The fan-in: newWorld = append(newWorld, slice...) for every worker.
PartCollect ==
  /\ job.kind = "part" /\ job.st = "fanning"
  /\ job.id = job.threads
  /\ job' = [job EXCEPT !.st = "done", !.newWorld = Concat(job.slices, 1)]
  /\ UNCHANGED <<bstate, slot, ncalls, hist, drv>>

NextParts ==
  \/ PartWorker
  \/ PartCollect

SpecParts == InitParts /\ [][NextParts]_vars

\* ------------------------------------------------------------ grid writes
\* The driver's two goroutines each call savePGMImage once: the control
\* goroutine for a key 's', 'q' or 'k' with the grid GetGlobal returned
\* (nil when the call was served before EvolveWorld adopted a grid), the
\* main flow with the grid EvolveWorld returned.  The channels are
\* unbuffered, so every send is a step taken together with the receiver.
Savers == {"ctl", "main"}

SaveGrids ==
  {[i \in 1..SaveHeight |-> [j \in 1..SaveWidth |->
      IF <<j - 1, i - 1>> \in cells THEN Alive ELSE 0]] :
    cells \in SUBSET ((0..(SaveWidth - 1)) \X (0..(SaveHeight - 1)))}

\* The number of sends of savePGMImage's two loops over world.
CellCount(world) == IF world = NilWorld THEN 0 ELSE Len(world) * Len(world[1])

\* world[i][j] of the k-th send (k from 0).
CellAt(world, k) ==
  world[(k \div Len(world[1])) + 1][(k % Len(world[1])) + 1]

InitSave ==
  /\ World = NilWorld
  /\ LastWorld = NilWorld
  /\ Turn = 0
  /\ Mu = FALSE
  /\ Quit = FALSE
  /\ TurnDone = FALSE
  /\ Continue = FALSE
  /\ Workers = 0
  /\ node = << >>
  /\ proc = "up"
  /\ slot = [s \in Slots |-> FreeSlot]
  /\ ncalls = 0
  /\ hist = NoHist
  /\ drv = NoDrv
  /\ \E goWorld \in SaveGrids \cup {NilWorld}, world \in SaveGrids :
       job = [kind |-> "save",
              pc |-> [ctl |-> "command", main |-> "command"],
              world |-> [ctl |-> goWorld, main |-> world],
              k |-> [ctl |-> 0, main |-> 0],
              io |-> [st |-> "command", left |-> 0],
              log |-> << >>]

\* The I/O collaborator: whether it is receiving on the channel of item.
\* It takes a command when it serves no write, then the filename of the
\* write, then the cell bytes.
startIoReceives(io, item) == io.st = item

\* The I/O collaborator after it received item: a write is an output
\* command, a filename and width x height cell bytes.
startIoReceived(io, item) ==
  CASE item = "command" -> [st |-> "filename", left |-> 0]
    [] item = "filename" -> [st |-> "byte", left |-> SaveWidth * SaveHeight]
    [] item = "byte" -> IF io.left = 1 THEN [st |-> "command", left |-> 0]
                        ELSE [st |-> "byte", left |-> io.left - 1]
    [] OTHER -> io

\* One send of savePGMImage by goroutine g, taken by the collaborator.
SaveSend(g, item, val, pc) ==
  /\ startIoReceives(job.io, item)
  /\ job' = [job EXCEPT
               !.io = startIoReceived(@, item),
               !.log = Append(@, [who |-> g, item |-> item, val |-> val]),
               !.pc[g] = pc,
               !.k[g] = IF item = "byte" THEN @ + 1 ELSE @]
  /\ UNCHANGED <<bstate, slot, ncalls, hist, drv>>

\* c.ioCommand <- ioOutput
savePGMCommand(g) ==
  /\ job.kind = "save" /\ job.pc[g] = "command"
  /\ SaveSend(g, "command", "ioOutput", "filename")

\* c.ioFilename <- fmt.Sprintf("%dx%dx%d", ...)
savePGMFilename(g) ==
  /\ job.kind = "save" /\ job.pc[g] = "filename"
  /\ SaveSend(g, "filename", "name", "byte")

\* c.ioOutput <- world[i][j], once for every cell the grid holds.
savePGMByte(g) ==
  /\ job.kind = "save" /\ job.pc[g] = "byte"
  /\ job.k[g] < CellCount(job.world[g])
  /\ SaveSend(g, "byte", CellAt(job.world[g], job.k[g]), "byte")

\* The loops of savePGMImage end when the grid is exhausted.
savePGMReturn(g) ==
  /\ job.kind = "save" /\ job.pc[g] = "byte"
  /\ job.k[g] = CellCount(job.world[g])
  /\ job' = [job EXCEPT !.pc[g] = IF g = "main" THEN "idle" ELSE "done"]
  /\ UNCHANGED <<bstate, slot, ncalls, hist, drv>>

\* The main flow: c.ioCommand <- ioCheckIdle; <-c.ioIdle.  The
\* collaborator takes the command when it serves no write and answers.
SaveCheckIdle ==
  /\ job.kind = "save" /\ job.pc.main = "idle"
  /\ startIoReceives(job.io, "command")
  /\ job' = [job EXCEPT
               !.log = Append(@, [who |-> "main", item |-> "command",
                                  val |-> "ioCheckIdle"]),
               !.pc.main = "done"]
  /\ UNCHANGED <<bstate, slot, ncalls, hist, drv>>

NextSave ==
  \/ \E g \in Savers : savePGMCommand(g)
  \/ \E g \in Savers : savePGMFilename(g)
  \/ \E g \in Savers : savePGMByte(g)
  \/ \E g \in Savers : savePGMReturn(g)
  \/ SaveCheckIdle

SpecSave == InitSave /\ [][NextSave]_vars

\* ------------------------------------------------- single-process variant
\* The distributor of the variant without a broker: one goroutine that
\* computes the turns itself and takes ticks and key presses in a select
\* after every turn.  job.turn is the variable declared by `turn := 0`
\* before the loop, job.i the one the for statement declares under the
\* same name; job.done counts the turns computed and job.final is the
\* turn carried by the FinalTurnComplete event, -1 before it is sent.
LocalKeys == {"s", "q", "p"}

LocalGrids ==
  {[i \in 1..LocalHeight |-> [j \in 1..LocalWidth |->
      IF <<j - 1, i - 1>> \in cells THEN Alive ELSE 0]] :
    cells \in SUBSET ((0..(LocalWidth - 1)) \X (0..(LocalHeight - 1)))}

InitLocal ==
  /\ World = NilWorld
  /\ LastWorld = NilWorld
  /\ Turn = 0
  /\ Mu = FALSE
  /\ Quit = FALSE
  /\ TurnDone = FALSE
  /\ Continue = FALSE
  /\ Workers = 0
  /\ node = << >>
  /\ proc = "up"
  /\ slot = [s \in Slots |-> FreeSlot]
  /\ ncalls = 0
  /\ hist = NoHist
  /\ drv = NoDrv
  /\ \E world \in LocalGrids, turns \in 0..LocalTurns :
       job = [kind |-> "local", pc |-> "loop", world |-> world,
              turns |-> turns, turn |-> 0, i |-> 0, quit |-> FALSE,
              done |-> 0, final |-> -1, state |-> "none"]

\* for turn := 0; turn < p.Turns; turn++ { if quit { break } ...
LocalLoop ==
  /\ job.kind = "local" /\ job.pc = "loop"
  /\ job' = [job EXCEPT
               !.pc = IF job.i < job.turns /\ ~job.quit THEN "workers" ELSE "final"]
  /\ UNCHANGED <<bstate, slot, ncalls, hist, drv>>

\* The workers of the turn (p.Threads = 1: one worker computes every row)
\* and world = append([][]byte{}, newWorld...)
LocalStep ==
  /\ job.kind = "local" /\ job.pc = "workers"
  /\ job' = [job EXCEPT
               !.pc = "select",
               !.world = calculateNextState(job.world, LocalWidth, LocalHeight,
                                            0, LocalHeight),
               !.done = @ + 1]
  /\ UNCHANGED <<bstate, slot, ncalls, hist, drv>>

\* select: case <-ticker.C, and default.
LocalTick ==
  /\ job.kind = "local" /\ job.pc = "select"
  /\ job' = [job EXCEPT !.pc = "complete"]
  /\ UNCHANGED <<bstate, slot, ncalls, hist, drv>>

\* select: case command := <-c.keyPresses
LocalKey(command) ==
  /\ job.kind = "local" /\ job.pc = "select"
  /\ job' = [job EXCEPT
               !.pc = IF command = "p" THEN "paused" ELSE "complete",
               !.quit = IF command = "q" THEN TRUE ELSE @,
               !.state = CASE command = "s" -> "Executing"
                           [] command = "q" -> "Quitting"
                           [] OTHER -> "Paused"]
  /\ UNCHANGED <<bstate, slot, ncalls, hist, drv>>

\* for { if <-c.keyPresses == 'p' { break } }; StateChange{turn, Executing}
LocalResume ==
  /\ job.kind = "local" /\ job.pc = "paused"
  /\ job' = [job EXCEPT !.pc = "complete", !.state = "Executing"]
  /\ UNCHANGED <<bstate, slot, ncalls, hist, drv>>

\* c.events <- TurnComplete{CompletedTurns: turn}; turn++
LocalComplete ==
  /\ job.kind = "local" /\ job.pc = "complete"
  /\ job' = [job EXCEPT !.pc = "loop", !.i = @ + 1]
  /\ UNCHANGED <<bstate, slot, ncalls, hist, drv>>

\* c.events <- FinalTurnComplete{turn, calculateAliveCells(world)}
LocalFinal ==
  /\ job.kind = "local" /\ job.pc = "final"
  /\ job' = [job EXCEPT !.pc = "done", !.final = job.turn]
  /\ UNCHANGED <<bstate, slot, ncalls, hist, drv>>

NextLocal ==
  \/ LocalLoop
  \/ LocalStep
  \/ LocalTick
  \/ \E command \in LocalKeys : LocalKey(command)
  \/ LocalResume
  \/ LocalComplete
  \/ LocalFinal

SpecLocal == InitLocal /\ [][NextLocal]_vars

\* ------------------------------------------------------------ flip polls
\* A broker that holds any two grids of the same dimensions in LastWorld
\* and World, at any Turn, serves GetCellFlipped calls and nothing else.
FlipGrids ==
  {[i \in 1..FlipHeight |-> [j \in 1..FlipWidth |->
      IF <<j - 1, i - 1>> \in cells THEN Alive ELSE 0]] :
    cells \in SUBSET ((0..(FlipWidth - 1)) \X (0..(FlipHeight - 1)))}

InitFlip ==
  /\ World \in FlipGrids
  /\ LastWorld \in FlipGrids
  /\ Turn \in 0..MaxTurns
  /\ Mu = FALSE
  /\ Quit = FALSE
  /\ TurnDone = FALSE
  /\ Continue = FALSE
  /\ Workers = 0
  /\ node = << >>
  /\ proc = "up"
  /\ slot = [s \in Slots |-> FreeSlot]
  /\ ncalls = 0
  /\ hist = NoHist
  /\ drv = NoDrv
  /\ job = NoJob

NextFlip ==
  \/ \E s \in Slots : Call(s, "GetCellFlipped", NilWorld, 0)
  \/ \E s \in Slots : HandlerLock(s)
  \/ \E s \in Slots : GetCellFlipped(s)
  \/ \E s \in Slots : HandlerUnlock(s)

SpecFlip == InitFlip /\ [][NextFlip]_vars

\* ================================================================ claims
\* The full-grid transition applied n times.
RECURSIVE Generations(_, _)
Generations(world, n) ==
  IF n = 0 THEN world
  ELSE Generations(calculateNextState(world, Len(world[1]), Len(world), 0, Len(world)), n - 1)

\* The EvolveWorld calls that have returned.
Returned(s) == slot[s].op = "EvolveWorld" /\ slot[s].pc = "free"

\* C1: an AdvanceRun that found the session not resumable, with every node
\* replying and no Checkpoint or Terminate intervening, returns turn `turns`
\* and the supplied grid advanced `turns` generations, for every number of
\* registered nodes.
C1_AdvanceRunResult ==
  \A s \in Slots :
    (Returned(s) /\ ~slot[s].resumed /\ slot[s].clean)
      => /\ slot[s].res.Turn = slot[s].turns
         /\ slot[s].res.World = Generations(slot[s].grid, slot[s].turns)

\* C2: between the return of a Pause and the sending of the next Unpause,
\* Turn and World do not change and no fan-out is started, whatever other
\* calls arrive.
C2_PauseFreezes ==
  [][(hist.pauseHeld /\ hist'.pauseHeld)
       => /\ World' = World
          /\ Turn' = Turn
          /\ \A s \in Slots : slot'[s].pc = "send" => slot[s].pc = "send"]_vars

\* C4: an AdvanceRun(grid', T) that finds a checkpointed session starts from
\* the stored World and Turn and does not adopt grid'; it fans out only if T
\* exceeds the stored Turn, and otherwise returns the stored grid and Turn.
C4_ResumeFromCheckpoint ==
  \A s \in Slots :
    (slot[s].op = "EvolveWorld" /\ slot[s].resumed)
      => /\ slot[s].pc \in {"turn0", "last"} => (World = slot[s].w0 /\ Turn = slot[s].t0)
         /\ slot[s].pc # "turn0"
         /\ slot[s].fanned => slot[s].turns > slot[s].t0
         /\ (Returned(s) /\ slot[s].turns <= slot[s].t0)
              => /\ ~slot[s].fanned
                 /\ slot[s].res.World = slot[s].w0
                 /\ slot[s].res.Turn = slot[s].t0

\* C4's case: a resumed call with another grid than the stored one and a
\* turn budget the stored Turn has reached already has returned.
C4_Witness ==
  \E s \in Slots :
    /\ Returned(s) /\ slot[s].resumed
    /\ slot[s].t0 > 0 /\ slot[s].turns <= slot[s].t0
    /\ slot[s].w0 # slot[s].grid /\ slot[s].w0 # NilWorld

\* C5: once a QuitServer has returned, and until an EvolveWorld request is
\* sent, World and Turn do not change and LastWorld equals World.
C5_CheckpointFreezes ==
  [][(hist.frozen /\ hist'.frozen)
       => /\ World' = World
          /\ Turn' = Turn
          /\ LastWorld' = World']_vars

\* The cells where grids a and b of the same dimensions differ.
Differing(a, b) ==
  {<<j - 1, i - 1>> : <<i, j>> \in {ij \in (1..Len(a)) \X (1..Len(a[1])) :
                                       a[ij[1]][ij[2]] # b[ij[1]][ij[2]]}}

Polled(s) == slot[s].op = "GetCellFlipped" /\ slot[s].res # NoRes

\* C9: with LastWorld = A and World = B of the same dimensions, the body of
\* GetCellFlipped answers one event for each cell where A and B differ, no
\* other and none twice, each stamped with Turn, and stores B in LastWorld;
\* the poll after it, World being the same, answers the empty list.
C9_FlipsAreTheDifference ==
  [][\A s \in Slots :
       (Running(s, "GetCellFlipped", "body") /\ slot'[s].pc = "unlock")
         => LET ev == slot'[s].res.FlippedEvents
            IN /\ {ev[k].Cell : k \in 1..Len(ev)} = Differing(LastWorld, World)
               /\ Len(ev) = Cardinality(Differing(LastWorld, World))
               /\ \A k \in 1..Len(ev) : ev[k].CompletedTurns = Turn
               /\ LastWorld' = World
               /\ World' = World
               /\ (\E t \in Slots \ {s} : Polled(t)) => ev = << >>]_vars

\* C9's case: a poll answered two events at a Turn above 0, and the poll
\* after it answered none.
C9_Witness ==
  \E s, t \in Slots :
    /\ Polled(s) /\ Polled(t)
    /\ Len(slot[s].res.FlippedEvents) = 2
    /\ slot[s].res.FlippedEvents[1].CompletedTurns > 0
    /\ slot[t].res.FlippedEvents = << >>
    /\ LastWorld = World

\* C3: a run that was paused with turns left and then resumed returns with
\* Turn = turns, every node replying, unless it is paused again.
C3_ResumeCompletes ==
  \A s \in Slots :
    (InFlight(s) /\ hist.resumed)
      ~> ((Returned(s) /\ slot[s].res.Turn = slot[s].turns) \/ ~hist.resumed)

\* C3's case: a run that fanned out was paused with turns left and resumed,
\* and has returned all its turns.
C3_Witness ==
  \E s \in Slots :
    /\ Returned(s) /\ hist.resumed /\ slot[s].fanned /\ Workers >= 1
    /\ slot[s].res.Turn = slot[s].turns
    /\ slot[s].res.World = Generations(slot[s].grid, slot[s].turns)

Killing(s) == slot[s].op = "KillServer" /\ slot[s].pc # "free"

C8_TerminateRecovers ==
  (\E s \in Slots : Killing(s)) ~> (proc = "exited")

\* C6: when the QuitServer the driver sent after it had sent EvolveWorld
\* has returned with two turns or more left, or with a turn left before the
\* EvolveWorld handler executed its first statement, the EvolveWorld
\* returns a Turn below `turns`.
C6_CheckpointStopsRun ==
  \A s \in Slots :
    ( /\ drv.phase = "run" /\ drv.main = s /\ Returned(s)
      /\ hist.q.done
      /\ \/ hist.q.turn + 2 <= slot[s].turns
         \/ hist.q.early /\ hist.q.turn < slot[s].turns )
      => slot[s].res.Turn < slot[s].turns

\* The EvolveWorld handler of the session has adopted the driver's grid or
\* kept the stored one.
Adopted ==
  \/ drv.phase = "final"
  \/ drv.phase = "run" /\ slot[drv.main].pc \notin {"quit0", "init"}

\* C10: at every flip poll of a session served once the run has started,
\* the cells the receiver holds alive, with the events of the answer
\* applied, are the alive cells of World.
C10_ObserverTracksWorld ==
  [][\A s \in Slots :
       ( /\ drv.ctl = "poll" /\ drv.ctlSlot = s /\ Adopted
         /\ Running(s, "GetCellFlipped", "body") /\ slot'[s].pc = "unlock" )
         => Toggle(drv.obs, slot'[s].res.FlippedEvents, 1) = CellsAlive(World)]_vars

\* The handlers that begin with b.Mu.Lock().
LockOps == QueryOps \cup {"QuitServer", "Pause"}

\* C11: while a Pause has returned and no Unpause has been sent, the mutex
\* is locked and every handler of a query, a QuitServer or another Pause
\* that has not returned is still at its b.Mu.Lock(): none completes, and
\* none ever does if no Unpause is sent.
C11_PauseBlocksQueries ==
  hist.pauseHeld
    => /\ Mu
       /\ \A s \in Slots :
            (slot[s].op \in LockOps /\ slot[s].pc # "free") => slot[s].pc = "lock"

\* C11's case: with a Pause outstanding, a query and a second Pause wait
\* for the mutex.
C11_Witness ==
  /\ hist.pauseHeld
  /\ \E s, t \in Slots :
       /\ slot[s].op \in QueryOps /\ slot[s].pc = "lock"
       /\ slot[t].op = "Pause" /\ slot[t].pc = "lock"

\* C12: the b.Mu.Unlock() of an Unpause that was sent while no Pause was
\* outstanding leaves the mutex as it is and the broker process running.
C12_StrayResumeHarmless ==
  [][\A s \in Slots :
       ( /\ Running(s, "Unpause", "unlock") /\ slot[s].stray
         /\ (slot'[s].pc = "free" \/ proc' # proc) )
         => Mu' = Mu /\ proc' = "up"]_vars

\* The latest EvolveWorld call, once it has adopted its grid (it found
\* Continue unset): the run the broker's World and Turn belong to.
Started(t) ==
  /\ t = hist.run
  /\ slot[t].op = "EvolveWorld"
  /\ slot[t].pc \notin {"quit0", "init"}
  /\ ~slot[t].resumed

\* C13: the grid and turn a GetGlobal answers, and the count and turn an
\* AliveCellsCount answers, once the latest run has adopted its grid, are
\* those of one generation of that grid: generation `turn`.
C13_SnapshotIsOneState ==
  [][\A s, t \in Slots :
       (Started(t) /\ slot'[s].pc = "unlock")
         => /\ Running(s, "GetGlobal", "body")
                 => slot'[s].res.World = Generations(slot[t].grid, slot'[s].res.Turns)
            /\ Running(s, "AliveCellsCount", "body")
                 => slot'[s].res.AliveCellsCount
                      = Len(AliveCells(Generations(slot[t].grid, slot'[s].res.CompletedTurns)))]_vars

\* C14: GetTurnDone answers TurnDone = true exactly when a turn was counted
\* since the previous GetTurnDone answered (or since the start), however
\* many turns that were, and leaves the flag cleared.
C14_TurnDoneFlag ==
  [][\A s \in Slots :
       (Running(s, "GetTurnDone", "body") /\ slot'[s].pc = "unlock")
         => /\ slot'[s].res.TurnDone = (hist.turned > 0)
            /\ TurnDone' = FALSE]_vars

\* A GetTurnDone has answered false after an earlier one answered a single
\* true for two turns.
C14_Witness ==
  \E s, t \in Slots :
    /\ Running(s, "GetTurnDone", "unlock") /\ ~slot[s].res.TurnDone
    /\ slot[t].op = "GetTurnDone" /\ slot[t].pc = "free" /\ slot[t].res.TurnDone
    /\ slot[t].res.Turn = 2 /\ hist.polled = 0 /\ Turn = 2

\* The handlers that only read the broker's fields.
ReadOps == {"GetGlobal", "AliveCellsCount", "CalculateAliveCells", "GetContinue"}

\* C15: a step of a GetGlobal, AliveCellsCount, CalculateAliveCells or
\* GetContinue handler leaves World, LastWorld, Turn, Quit, Continue,
\* TurnDone and the registered nodes as they are, and the handler returns
\* with the mutex released and the process running.
C15_QueriesReadOnly ==
  [][\A s \in Slots :
       (slot[s].op \in ReadOps /\ slot[s].pc # "free" /\ slot'[s] # slot[s])
         => /\ UNCHANGED <<World, LastWorld, Turn, Quit, Continue, TurnDone, Workers, node>>
            /\ slot'[s].pc = "free" => ~Mu' /\ proc' = "up"]_vars

\* A GetContinue has returned Continue = true during a run that has
\* counted a turn, and Continue is still set.
C15_Witness ==
  \E s, t \in Slots :
    /\ slot[s].op = "GetContinue" /\ slot[s].pc = "free"
    /\ slot[s].res.op = "GetContinue" /\ slot[s].res.Continue /\ Continue
    /\ InFlight(t) /\ slot[s].res.Turn = 1 /\ ~Mu

\* C16: once the latest EvolveWorld call has passed its initialisation
\* (lines 137-144), resumed or not, Turn lies between 0 and its p.Turns.
C16_TurnWithinBudget ==
  \A t \in Slots :
    ( /\ t = hist.run /\ slot[t].op = "EvolveWorld"
      /\ slot[t].pc \notin {"quit0", "init", "turn0"} )
      => 0 <= Turn /\ Turn <= slot[t].turns

\* C17: Turn changes only at b.Turn++ after a fan-in, by +1, and at
\* b.Turn = 0 of a call that found Continue unset; a call that has passed
\* its initialisation starts from 0, or from the stored Turn when it found
\* Continue set.
C17_TurnSteps ==
  [][/\ Turn' # Turn
          => \E s \in Slots :
               \/ Running(s, "EvolveWorld", "incTurn") /\ slot'[s].pc = "turnDone"
                    /\ Turn' = Turn + 1
               \/ Running(s, "EvolveWorld", "turn0") /\ ~slot[s].resumed
                    /\ slot'[s].pc = "last" /\ Turn' = 0
     /\ \A s \in Slots :
          (slot'[s].op = "EvolveWorld" /\ slot'[s].pc = "last")
            => Turn' = IF slot'[s].resumed THEN slot'[s].t0 ELSE 0]_vars

\* A call that found Continue set at Turn = 1 has counted a further turn.
C17_Witness ==
  \E s \in Slots :
    /\ Running(s, "EvolveWorld", "turnDone")
    /\ slot[s].resumed /\ slot[s].t0 = 1 /\ Turn = 2

\* C18: when an EvolveWorld call has stored the grid of a fan-in (b.World =
\* newWorld), World has the rows and columns of the grid the call adopted.
C18_DimensionsKept ==
  \A s \in Slots :
    (slot[s].op = "EvolveWorld" /\ slot[s].pc \in {"incTurn", "turnDone", "unlock"})
      => LET adopted == IF slot[s].resumed THEN slot[s].w0 ELSE slot[s].grid
         IN /\ Len(World) = Len(adopted)
            /\ \A i \in 1..Len(World) : Len(World[i]) = Len(adopted[1])

\* The EvolveWorld handlers between their b.Mu.Lock() and b.Mu.Unlock():
\* fanning out, waiting for the replies, or storing the result.
Cycling ==
  {s \in Slots : /\ slot[s].op = "EvolveWorld"
                 /\ slot[s].pc \in {"send", "recv", "incTurn", "turnDone", "unlock"}}

\* C19: at most one EvolveWorld handler is between its b.Mu.Lock() and its
\* b.Mu.Unlock(), and the calls to nodes in flight are those of that handler.
C19_OneCycleInFlight ==
  /\ Cardinality(Cycling) <= 1
  /\ \A s \in Slots \ Cycling : slot[s].calls = << >>

\* Two EvolveWorld calls are in flight after an Unpause has returned: one
\* waits for its nodes, the other waits for the mutex.
C19_Witness ==
  \E s, t, u \in Slots :
    /\ Running(s, "EvolveWorld", "recv")
    /\ \E i \in 1..Workers : slot[s].calls[i].st = "sent"
    /\ Running(t, "EvolveWorld", "lock")
    /\ slot[u].op = "Unpause" /\ slot[u].pc = "free"

\* An EvolveWorld handler has fanned out a turn of which a call has
\* returned an error, or was made to a node that has died or stopped
\* answering.
Stuck(s) ==
  /\ slot[s].op = "EvolveWorld"
  /\ slot[s].pc \in {"send", "recv"}
  /\ \E i \in 1..Len(slot[s].calls) :
       \/ slot[s].calls[i].st = "fail"
       \/ slot[s].calls[i].st = "sent" /\ node[i] # "up"

\* C20: once a call of a turn has failed or cannot be answered, the handler
\* stays in that turn's fan-out or fan-in: the mutex stays locked, Turn and
\* World stay as they are, the call does not return and no handler waiting
\* at b.Mu.Lock() gets past it.
C20_FailedTurnBlocks ==
  [][\A s \in Slots :
       Stuck(s)
         => /\ Stuck(s)'
            /\ Mu /\ Mu'
            /\ Turn' = Turn /\ World' = World
            /\ \A t \in Slots : slot[t].pc = "lock" => slot'[t].pc = "lock"]_vars

\* A fan-in waits on a call that returned an error, with a Pause handler
\* waiting for the mutex.
C20_Witness ==
  \E s, t \in Slots :
    /\ Stuck(s) /\ slot[s].pc = "recv"
    /\ \E i \in 1..Len(slot[s].calls) : slot[s].calls[i].st = "fail"
    /\ slot[t].op = "Pause" /\ slot[t].pc = "lock"

\* The blinker seed, and the blinker turned by a quarter: the cells of
\* column 1 in rows 0..2.
Blinker == GridOf(BlinkerCells, Width, Height)
Orthogonal == GridOf({<<1, 0>>, <<1, 1>>, <<1, 2>>}, Width, Height)

\* The latest run is a non-resumed run of 2 turns on the blinker seed, on a
\* broker with two nodes.
BlinkerRun(t) ==
  /\ Started(t)
  /\ slot[t].grid = Blinker /\ slot[t].turns = 2
  /\ Workers = 2

\* World at each Turn of such a run, outside the two windows in which one
\* of World and Turn has been stored and the other not yet; and its answer.
BlinkerStates ==
  \A t \in Slots :
    BlinkerRun(t)
      => /\ slot[t].pc \notin {"turn0", "incTurn"}
              => /\ Turn \in 0..2
                 /\ World = IF Turn = 1 THEN Orthogonal ELSE Blinker
         /\ (Returned(t) /\ slot[t].clean)
              => slot[t].res.Turn = 2 /\ slot[t].res.World = Blinker

\* C21: a run of 2 turns on the 4x4 blinker with two nodes returns turn 2
\* and the seed; World is the seed at turns 0 and 2 and the orthogonal
\* blinker at turn 1; every AliveCellsCount served during the run answers 3.
C21_BlinkerEndToEnd ==
  [][/\ BlinkerStates'
     /\ \A s, t \in Slots :
          ( /\ BlinkerRun(t)
            /\ Running(s, "AliveCellsCount", "body") /\ slot'[s].pc = "unlock" )
            => /\ slot'[s].res.AliveCellsCount = 3
               /\ slot'[s].res.CompletedTurns \in 0..2]_vars

\* The run has returned, and an AliveCellsCount served during it answered
\* 3 cells at turn 1.
C21_Witness ==
  \E s, t \in Slots :
    /\ BlinkerRun(t) /\ Returned(t) /\ slot[t].clean
    /\ slot[s].op = "AliveCellsCount" /\ slot[s].pc = "free"
    /\ slot[s].res.op = "AliveCellsCount"
    /\ slot[s].res.CompletedTurns = 1 /\ slot[s].res.AliveCellsCount = 3

\* The 8 neighbours of a cell, as offsets (dx, dy).
Offsets == ({-1, 0, 1} \X {-1, 0, 1}) \ {<<0, 0>>}

\* The number of offsets at which cell (x, y) of world has an alive
\* neighbour, positions taken modulo the width and the height.
AliveNeighbours(world, x, y) ==
  Cardinality({d \in Offsets :
     At(world, (y + d[2] + Len(world)) % Len(world),
               (x + d[1] + Len(world[1])) % Len(world[1])) = Alive})

\* C22: the reply to a CalculateWorld request for rows [StartRow, EndRow)
\* of a grid of 0 and 255 has EndRow - StartRow rows of Width cells; cell
\* (x, y - StartRow) is 255 exactly when cell (x, y) is alive with 2 or 3
\* alive neighbours or dead with exactly 3, and 0 otherwise; the grid of
\* the request is as it was sent.
C22_NextRowRange ==
  (job.kind = "calc" /\ job.st = "ok")
    => /\ Len(job.rows) = job.EndRow - job.StartRow
       /\ \A r \in 1..Len(job.rows) :
            /\ Len(job.rows[r]) = job.Width
            /\ \A c \in 1..job.Width :
                 LET x == c - 1
                     y == job.StartRow + r - 1
                     n == AliveNeighbours(job.before, x, y)
                     lives == IF At(job.before, y, x) = Alive THEN n \in {2, 3} ELSE n = 3
                 IN job.rows[r][c] = IF lives THEN Alive ELSE 0
       /\ job.World = job.before

\* A reply for the whole of a 3x3 grid in which the dead cell (0, 0) has
\* three alive neighbours, the cell (width-1, height-1) among them, and
\* comes alive.
C22_Witness ==
  /\ job.kind = "calc" /\ job.st = "ok"
  /\ job.Width = 3 /\ job.Height = 3 /\ job.StartRow = 0 /\ job.EndRow = 3
  /\ At(job.before, 0, 0) = 0 /\ At(job.before, 2, 2) = Alive
  /\ AliveNeighbours(job.before, 0, 0) = 3
  /\ job.rows[1][1] = Alive

\* The rows of a range <<startRow, endRow>>.
RowsOf(range) == range[1]..(range[2] - 1)

\* C23: the ranges of workers 0..threads-1 are pairwise disjoint, start at
\* non-decreasing rows and cover exactly the rows 0..height-1.
C23_PartitionCovers ==
  (job.kind = "part" /\ job.id = job.threads)
    => /\ \A a, b \in 1..job.threads :
            a < b => /\ RowsOf(job.ranges[a]) \cap RowsOf(job.ranges[b]) = {}
                     /\ job.ranges[a][1] <= job.ranges[b][1]
       /\ UNION {RowsOf(job.ranges[a]) : a \in 1..job.threads} = 0..(job.height - 1)

\* C24: for 1..height workers, the slices appended in the order of the
\* worker indices are the grid one call over all the rows computes.
C24_SplitEqualsWhole ==
  (job.kind = "part" /\ job.st = "done" /\ job.threads <= job.height)
    => job.newWorld
         = calculateNextState(job.World, PartWidth, job.height, 0, job.height)

\* C25: c.events is closed at most once, once when the session has ended,
\* and no goroutine of the driver sends on it or closes it after it was
\* closed (which would end the driver with a runtime panic).
C25_StreamClosedOnce ==
  /\ drv.closed <= 1
  /\ drv.panic = "none"
  /\ (drv.phase = "off" /\ drv.sessions > 0) => drv.closed = 1

\* C26: a 'q' or 'k' the control goroutine has taken from c.keyPresses
\* during the run is answered by its QuitServer or KillServer call, unless
\* the driver process ends first.
C26_CommandReachesBroker ==
  (drv.got # "none") ~> (drv.got = "none" \/ drv.phase = "off")

\* C27: once a call of the driver has returned an error, the driver
\* process has ended: neither of its goroutines goes on.
C27_FailedCallAborts ==
  drv.failed # "none" => (drv.phase = "off" /\ drv.ctl = "none")

\* C28: while the driver is about to submit EvolveWorld or waits for its
\* return, the grid it holds and the grid of its request are the grid
\* GetContinue reported when Continue was set, else the grid it read; and
\* the initial CellFlipped events, all sent by then, name every alive cell
\* of that grid once and no other cell.
C28_ResumedGridUsed ==
  (drv.phase \in {"ready", "run"} /\ drv.failed = "none") =>
    LET used == IF drv.cont.Continue THEN drv.cont.World ELSE drv.seed
    IN /\ drv.world = used
       /\ drv.phase = "run" => slot[drv.main].grid = used
       /\ \A k \in 1..Len(drv.ann) :
            /\ used[drv.ann[k][2] + 1][drv.ann[k][1] + 1] = 255
            /\ \A l \in 1..Len(drv.ann) : drv.ann[l] = drv.ann[k] => l = k
       /\ \A y \in 1..Len(used) : \A x \in 1..Len(used[y]) :
            used[y][x] = 255 => \E k \in 1..Len(drv.ann) : drv.ann[k] = <<x - 1, y - 1>>

\* A second session is handed a grid that differs from the one it read and
\* has submitted it.
C28_Witness ==
  /\ drv.phase = "run"
  /\ drv.cont.Continue
  /\ drv.cont.World # drv.seed
  /\ Len(drv.ann) > 0
  /\ slot[drv.main].pc # "free"

\* C29: when the control goroutine has handled the reply of a poll, it
\* has sent one CellFlipped for each returned event, in the returned order,
\* and after them one TurnComplete.
C29_PollBatch ==
  [][(drv.ctl = "poll" /\ drv'.ctl = "idle" /\ drv'.failed = drv.failed) =>
       LET cellUpdates == slot[drv.ctlSlot].res.FlippedEvents
           n == Len(cellUpdates)
       IN /\ Len(drv'.batch) = n + 1
          /\ \A k \in 1..n :
               /\ drv'.batch[k].event = "CellFlipped"
               /\ drv'.batch[k].Cell = cellUpdates[k].Cell
          /\ drv'.batch[n + 1].event = "TurnComplete"]_vars

\* The next statement of the handler in slot s reads or writes b.World,
\* b.Turn, b.LastWorld or b.TurnDone.
Accesses(s) ==
  \/ /\ slot[s].op = "EvolveWorld"
     /\ \/ slot[s].pc \in {"turn0", "last", "loop", "send", "recv", "incTurn", "turnDone", "ret"}
        \/ slot[s].pc = "init" /\ ~Continue
  \/ /\ slot[s].op \in QueryOps
     /\ slot[s].pc = "body"
  \/ /\ slot[s].op = "QuitServer"
     /\ slot[s].pc = "last"

\* The handler in slot s is between its b.Mu.Lock() and its b.Mu.Unlock(),
\* and the mutex is locked.
Held(s) ==
  /\ Mu
  /\ \/ slot[s].op = "EvolveWorld" /\ slot[s].pc \in {"send", "recv", "incTurn", "turnDone", "unlock"}
     \/ slot[s].op \in QueryOps \cup {"QuitServer"} /\ slot[s].pc \in {"body", "quit", "last", "unlock"}

\* C30: a handler executes a statement that reads or writes World, Turn,
\* LastWorld or TurnDone only while it holds the mutex.
C30_AccessUnderLock ==
  [][\A s \in Slots :
       (Accesses(s) /\ (slot'[s].pc # slot[s].pc \/ slot'[s].idx # slot[s].idx)) => Held(s)]_vars

\* The number of rows in the slices of the calls before call i.
RECURSIVE RowsBefore(_, _)
RowsBefore(calls, i) ==
  IF i <= 1 THEN 0 ELSE RowsBefore(calls, i - 1) + Len(calls[i - 1].rows)

\* C31: the grid stored at the end of a fan-in holds the rows of the slice
\* of worker 0, then those of worker 1, and so on to the last worker, and
\* no other row, whether or not the nodes replied in that order.
C31_IndexOrder ==
  [][\A s \in Slots :
       (Running(s, "EvolveWorld", "recv") /\ slot'[s].pc = "incTurn") =>
         LET calls == slot[s].calls
         IN /\ Len(World') = RowsBefore(calls, Len(calls) + 1)
            /\ \A i \in 1..Len(calls) : \A r \in 1..Len(calls[i].rows) :
                 World'[RowsBefore(calls, i) + r] = calls[i].rows[r]]_vars

\* A fan-in whose second node replied before its first has been collected
\* into the orthogonal blinker.
C31_Witness ==
  \E s \in Slots :
    /\ Running(s, "EvolveWorld", "incTurn")
    /\ hist.late
    /\ Workers = 2
    /\ slot[s].grid = Blinker /\ ~slot[s].resumed /\ Turn = 0
    /\ World = Orthogonal

\* The handler in slot s is in a fan-out: it has called a node and has not
\* yet collected the replies.
FanOut(s) ==
  /\ slot[s].op = "EvolveWorld" /\ slot[s].pc \in {"send", "recv"}
  /\ \E i \in 1..Len(slot[s].calls) : slot[s].calls[i].st # "idle"

\* C32: every call of a fan-out that a node has still to answer carries
\* World; World and Turn do not change while a handler is in a fan-out and
\* stays in it; and only a handler in a fan-out has calls to nodes.
C32_TurnBarrier ==
  [][\A s \in Slots :
       /\ (FanOut(s) /\ FanOut(s)') =>
            /\ World' = World /\ Turn' = Turn
            /\ \A i \in 1..Len(slot'[s].calls) :
                 slot'[s].calls[i].st = "sent" => slot'[s].calls[i].world = World'
       /\ ( /\ slot'[s].op = "EvolveWorld"
            /\ \E i \in 1..Len(slot'[s].calls) : slot'[s].calls[i].st \in {"sent", "ok"} )
            => slot'[s].pc \in {"send", "recv"}]_vars

\* C33: under the key presses of one session, an Unpause request is sent
\* only when a Pause has returned and no Unpause was sent since, and a
\* Pause request only when no Pause is being served or is held.
C33_PauseResumePairs ==
  [][\A s \in Slots :
       (slot[s].pc = "free" /\ slot'[s].pc # "free") =>
         /\ slot'[s].op = "Unpause" => hist.pauseHeld
         /\ slot'[s].op = "Pause" =>
              /\ ~hist.pauseHeld
              /\ \A t \in Slots : ~(slot[t].op = "Pause" /\ slot[t].pc # "free")]_vars

\* The driver has sent the Unpause of its Pause after a 'q' or 'k' was
\* pressed during the pause.
C33_Witness ==
  /\ drv.ctl = "resuming"
  /\ drv.got # "none"
  /\ slot[drv.ctlSlot].op = "Unpause" /\ ~slot[drv.ctlSlot].stray

\* C34: Continue, once set, stays set; an EvolveWorld handler that finds it
\* set leaves World and Turn as they are and goes on to b.LastWorld =
\* b.World; no handler reaches b.Turn = 0 while it is set.
C34_ContinueForever ==
  [][/\ Continue => Continue'
     /\ \A s \in Slots :
          /\ (Running(s, "EvolveWorld", "init") /\ Continue /\ slot'[s].pc # "init")
               => /\ World' = World /\ Turn' = Turn
                  /\ slot'[s].pc = "last"
          /\ (slot[s].pc # "turn0" /\ slot'[s].pc = "turn0") => ~Continue]_vars

\* A second run after the checkpoint has found Continue set, was handed
\* another grid than the stored one, and has returned the stored Turn.
C34_Witness ==
  \E s \in Slots :
    /\ hist.resumes >= 2
    /\ Returned(s) /\ slot[s].resumed
    /\ slot[s].w0 # slot[s].grid /\ slot[s].w0 # NilWorld
    /\ slot[s].res.Turn >= slot[s].t0 /\ slot[s].t0 > 0

\* The slices a turn appends when the request's Threads field is q.
RECURSIVE SlicesFor(_, _, _, _, _)
SlicesFor(world, height, q, threads, id) ==
  IF id >= threads THEN << >>
  ELSE LET range == workerRange(id, height, q, threads)
       IN calculateNextState(world, PartWidth, height, range[1], range[2])
            \o SlicesFor(world, height, q, threads, id + 1)

\* C35: a turn dispatches as many ranges as there are workers; the ranges
\* and the grid stored are those of the same turn under any other value of
\* the request's Threads field.
C35_ThreadsIgnored ==
  (job.kind = "part" /\ job.st = "done")
    => /\ Len(job.ranges) = job.threads
       /\ \A q \in 1..PartParam :
            /\ \A i \in 1..job.threads :
                 job.ranges[i] = workerRange(i - 1, job.height, q, job.threads)
            /\ job.newWorld = SlicesFor(job.World, job.height, q, job.threads, 0)

\* A turn of three workers has been collected for a request that asked
\* for one thread.
C35_Witness ==
  /\ job.kind = "part" /\ job.st = "done"
  /\ job.threads = 3 /\ job.pThreads = 1
  /\ job.height = 6
  /\ Len(job.newWorld) = 6

WriteStart(i) ==
  CHOOSE j \in 1..i :
    /\ job.log[j].item = "filename"
    /\ \A n \in (j + 1)..i : job.log[n].item # "filename"

\* C37: grid writes to the I/O collaborator never interleave: each write
\* is one output command, one filename, then exactly width x height cell
\* bytes of a single grid, with nothing of another write in between, also
\* when a save of the control loop coincides with the final save of the
\* main flow.
C37_WritesWhole ==
  job.kind = "save" =>
    /\ \A i \in 2..Len(job.log) :
         /\ job.log[i].item = "filename" =>
              /\ job.log[i - 1].item = "command"
              /\ job.log[i - 1].val = "ioOutput"
              /\ job.log[i - 1].who = job.log[i].who
         /\ job.log[i].item = "byte" =>
              /\ job.log[i - 1].item \in {"filename", "byte"}
              /\ job.log[i - 1].who = job.log[i].who
              /\ i - WriteStart(i) <= SaveWidth * SaveHeight
              /\ job.log[i].val =
                   CellAt(job.world[job.log[i].who], i - WriteStart(i) - 1)
    /\ \A g \in Savers :
         job.pc[g] \in {"idle", "done"} => job.k[g] = SaveWidth * SaveHeight

\* C38: on a quit command, the grid the driver saves and the turn it
\* reports in the state-change notification are the grid and Turn the
\* Coordinator holds at the Checkpoint, the state a later session resumes
\* from.
C38_QuitSavesCheckpoint ==
  [][\A s \in Slots :
       (QuitSetLast(s) /\ drv.ctl = "quit" /\ s = drv.ctlSlot) =>
         /\ drv.global.World = World
         /\ drv.global.Turns = Turn]_vars

\* C39: in the single-process variant the final-completion notification
\* carries the number of turns actually completed: the requested turn
\* count after a full run, the turn reached when a quit command ended
\* the run.
C39_FinalTurnCount ==
  (job.kind = "local" /\ job.final # -1) =>
    /\ job.final = job.done
    /\ ~job.quit => job.final = job.turns

\* C40: for every grid and row range the node's chunked implementation
\* (chunks of 4 rows computed by concurrent tasks) returns the same partial
\* grid as the sequential row-by-row implementation: the chunks are
\* disjoint, cover [startRow, endRow) exactly, and each output cell is
\* written by exactly one task.
C40_ChunkedEqualsSequential ==
  job.kind = "chunk" =>
    /\ \A r \in DOMAIN job.writers : Cardinality(job.writers[r]) <= 1
    /\ \A k \in DOMAIN job.chunks :
         /\ job.startRow <= job.chunks[k][1]
         /\ job.chunks[k][1] < job.chunks[k][2]
         /\ job.chunks[k][2] <= job.endRow
         /\ \A n \in DOMAIN job.chunks :
              n < k => job.chunks[n][2] <= job.chunks[k][1]
    /\ job.st = "done" =>
         /\ job.nextState = sequentialNextState(job.world, job.width, job.height,
                                                job.startRow, job.endRow)
         /\ \A r \in DOMAIN job.writers : Cardinality(job.writers[r]) = 1
         /\ \A i \in job.startRow..(job.endRow - 1) :
              \E k \in DOMAIN job.chunks :
                job.chunks[k][1] <= i /\ i < job.chunks[k][2]

\* A range of three chunks, the last one short, that starts after row 0 of
\* the grid, has been computed, and the result holds an alive cell.
C40_Witness ==
  /\ job.kind = "chunk" /\ job.st = "done"
  /\ job.startRow > 0
  /\ Len(job.chunks) = 3
  /\ job.chunks[3][2] - job.chunks[3][1] < chunkSize
  /\ \E r \in DOMAIN job.nextState : \E c \in 1..job.width :
       job.nextState[r][c] = Alive

====
